---------------------------- MODULE Spec2Model ----------------------------
(***************************************************************************)
(* Model of the input table (src/src/input.rs) and the inertial flight     *)
(* camera (src/src/camera.rs).                                             *)
(*                                                                         *)
(* Numbers.  Every f32/f64 quantity is a fixed-point integer counted in    *)
(* thousandths (SCALE): 5.0 is 5000, 89.99 is 89990, dt = 0.1 s is 100.    *)
(* Sums and comparisons are exact; a product is rounded to the nearest     *)
(* thousandth, as an f32 product is rounded to the nearest float.  cos and *)
(* sin are tabulated every 15 degrees and interpolated in between.  The     *)
(* basis vectors forward, right and up, and the cos and sin they are made  *)
(* of, are counted in ten-thousandths (UNIT), fine enough for the cos of    *)
(* the steepest pitch, 89.99 degrees, to differ from zero.                  *)
(*                                                                         *)
(* The application (src/src/app.rs) owns one InputState and one Camera: the *)
(* variables input and camera are its fields input_state and camera, and    *)
(* the variable app holds its other fields.  The event loop of             *)
(* src/src/main.rs, an older file with an App of its own, is the variable   *)
(* main.                                                                    *)
(***************************************************************************)
EXTENDS Integers, Sequences, FiniteSets, TLC

VARIABLES
    input,      \* InputState: the ten key flags and unhandled_mouse_move
    camera,     \* Camera: loc, vel, acc, forward, up, right, yaw, pitch,
                \* aspect, speed
    app,        \* App: size, config, the size of the depth texture,
                \* clear_color, selected_obj, cooldowns, delta_time, the
                \* shown instances of obj1 and obj2, camera_uniform
    call,       \* history: the last operation, its arguments and its result
    pending,    \* history: the delta recorded since the last consume, or None
    steps,      \* history: number of calls counted against the bound so far
    coast,      \* environment: the frames run with every key released: their
                \* constant frame time dt (0 before the first), their number,
                \* and vel.y when the first of them began
    main        \* the event loop of src/src/main.rs: its control_flow, the
                \* App of that file, and what the loop has done so far

vars == <<input, camera, app, call, pending, steps, coast, main>>

-----------------------------------------------------------------------------
(* Bounds of the exploration. *)

MaxSteps == 2
MaxKeys == 3
MaxFlight == 2
MaxApp == 3
MaxWalk == 3
MaxStrafe == 4
MaxRun == 60
MaxTilt == 2
MaxUi == 4
MaxMain == 3

-----------------------------------------------------------------------------
(* Fixed-point arithmetic. *)

SCALE == 10 * 10 * 10

\* the unit of the basis vectors and of cos and sin: ten-thousandths
UNIT == 10 * SCALE

Abs(a) == IF a < 0 THEN -a ELSE a

Max(a, b) == IF a > b THEN a ELSE b

\* a / b rounded to the nearest integer, half away from zero; b > 0
RoundDiv(a, b) == IF a >= 0 THEN (2 * a + b) \div (2 * b)
                            ELSE -((2 * (-a) + b) \div (2 * b))

Mul(a, b) == RoundDiv(a * b, SCALE)

\* a / b for b # 0
Div(a, b) == IF b > 0 THEN RoundDiv(a * SCALE, b)
                      ELSE RoundDiv((-a) * SCALE, -b)

RECURSIVE SqrtIter(_, _, _)
\* largest r in lo..hi with r * r <= n
SqrtIter(n, lo, hi) ==
    IF lo >= hi THEN lo
    ELSE LET mid == (lo + hi + 1) \div 2
         IN  IF mid * mid <= n THEN SqrtIter(n, mid, hi)
                               ELSE SqrtIter(n, lo, mid - 1)

\* square root of n rounded to the nearest integer
Sqrt(n) == LET r == SqrtIter(n, 0, 46340)
           IN  IF n - r * r > r THEN r + 1 ELSE r

-----------------------------------------------------------------------------
(* InputState, src/src/input.rs *)

None == "None"

SPACE   == "Space"
SHIFT   == "LShift"
FORWARD == "W"
BACK    == "S"
LEFT    == "A"
RIGHT   == "D"
TAB     == "Tab"
UP      == "Up"
DOWN    == "Down"
CTRL    == "LControl"

\* the key codes the model delivers: the ten above and two the table ignores
VirtualKeyCode == {SPACE, SHIFT, FORWARD, BACK, LEFT, RIGHT, TAB, UP, DOWN,
                   CTRL, "Escape", "Q"}

ElementState == {"Pressed", "Released"}

\* KeyboardInput { state, virtual_keycode: Option<VirtualKeyCode>, .. }
KeyboardInput == [state : ElementState,
                  virtual_keycode : VirtualKeyCode \cup {None}]

\* raw mouse-motion deltas, in thousandths of a pixel
MouseDeltas == {<<0, 0>>, <<15000, -45000>>, <<-15000, 45000>>, <<45000, 0>>}

InputState_new ==
    [space_pressed |-> FALSE, shift_pressed |-> FALSE,
     forward_pressed |-> FALSE, backward_pressed |-> FALSE,
     left_pressed |-> FALSE, right_pressed |-> FALSE,
     tab_pressed |-> FALSE, up_pressed |-> FALSE,
     down_pressed |-> FALSE, ctrl_pressed |-> FALSE,
     unhandled_mouse_move |-> <<0, 0>>]

\* update_keyboard with the BACK arm writing the forward flag
update_keyboard_wrong_flag(self, ev) ==
    LET key     == ev.virtual_keycode
        pressed == (ev.state = "Pressed")
    IN  IF key = None THEN self
        ELSE CASE key = SPACE   -> [self EXCEPT !.space_pressed = pressed]
               [] key = SHIFT   -> [self EXCEPT !.shift_pressed = pressed]
               [] key = FORWARD -> [self EXCEPT !.forward_pressed = pressed]
               [] key = BACK    -> [self EXCEPT !.forward_pressed = pressed]
               [] key = LEFT    -> [self EXCEPT !.left_pressed = pressed]
               [] key = RIGHT   -> [self EXCEPT !.right_pressed = pressed]
               [] key = TAB     -> [self EXCEPT !.tab_pressed = pressed]
               [] key = UP      -> [self EXCEPT !.up_pressed = pressed]
               [] key = DOWN    -> [self EXCEPT !.down_pressed = pressed]
               [] key = CTRL    -> [self EXCEPT !.ctrl_pressed = pressed]
               [] OTHER         -> self

update_keyboard(self, ev) ==
    LET key     == ev.virtual_keycode
        pressed == (ev.state = "Pressed")
    IN  IF key = None THEN self
        ELSE CASE key = SPACE   -> [self EXCEPT !.space_pressed = pressed]
               [] key = SHIFT   -> [self EXCEPT !.shift_pressed = pressed]
               [] key = FORWARD -> [self EXCEPT !.forward_pressed = pressed]
               [] key = BACK    -> [self EXCEPT !.backward_pressed = pressed]
               [] key = LEFT    -> [self EXCEPT !.left_pressed = pressed]
               [] key = RIGHT   -> [self EXCEPT !.right_pressed = pressed]
               [] key = TAB     -> [self EXCEPT !.tab_pressed = pressed]
               [] key = UP      -> [self EXCEPT !.up_pressed = pressed]
               [] key = DOWN    -> [self EXCEPT !.down_pressed = pressed]
               [] key = CTRL    -> [self EXCEPT !.ctrl_pressed = pressed]
               [] OTHER         -> self

\* update_mouse adding to the pending delta instead of overwriting it
update_mouse_accumulate(self, delta) ==
    [self EXCEPT !.unhandled_mouse_move =
        <<self.unhandled_mouse_move[1] + delta[1],
          self.unhandled_mouse_move[2] + delta[2]>>]

update_mouse(self, delta) ==
    [self EXCEPT !.unhandled_mouse_move = delta]

\* get_unhandled_mouse_move without the reset
get_unhandled_mouse_move_keep(self) ==
    <<self.unhandled_mouse_move, self>>

\* the pair <<returned delta, InputState afterwards>>
get_unhandled_mouse_move(self) ==
    LET unhandled == self.unhandled_mouse_move
    IN  <<unhandled, [self EXCEPT !.unhandled_mouse_move = <<0, 0>>]>>

\* InputState::SPRINT_SPEED, the factor of get_movement
InputState_SPRINT_SPEED == 2000

\* get_movement with ctrl multiplying every axis
get_movement_sprint_all(self) ==
    LET x == (IF self.forward_pressed THEN 1500 ELSE 0)
             - (IF self.backward_pressed THEN 1500 ELSE 0)
        z == (IF self.right_pressed THEN 1500 ELSE 0)
             - (IF self.left_pressed THEN 1500 ELSE 0)
        y == (IF self.space_pressed THEN 1500 ELSE 0)
             - (IF self.shift_pressed THEN 1500 ELSE 0)
    IN  IF self.ctrl_pressed
        THEN [x |-> Mul(x, InputState_SPRINT_SPEED),
              y |-> Mul(y, InputState_SPRINT_SPEED),
              z |-> Mul(z, InputState_SPRINT_SPEED)]
        ELSE [x |-> x, y |-> y, z |-> z]

get_movement(self) ==
    LET x == (IF self.forward_pressed THEN 1500 ELSE 0)
             - (IF self.backward_pressed THEN 1500 ELSE 0)
        z == (IF self.right_pressed THEN 1500 ELSE 0)
             - (IF self.left_pressed THEN 1500 ELSE 0)
        y == (IF self.space_pressed THEN 1500 ELSE 0)
             - (IF self.shift_pressed THEN 1500 ELSE 0)
    IN  [x |-> IF self.ctrl_pressed THEN Mul(x, InputState_SPRINT_SPEED) ELSE x,
         y |-> y, z |-> z]

\* InputState with exactly the keys of `keys` held and no pending mouse move
Held(keys) ==
    [space_pressed |-> SPACE \in keys, shift_pressed |-> SHIFT \in keys,
     forward_pressed |-> FORWARD \in keys, backward_pressed |-> BACK \in keys,
     left_pressed |-> LEFT \in keys, right_pressed |-> RIGHT \in keys,
     tab_pressed |-> TAB \in keys, up_pressed |-> UP \in keys,
     down_pressed |-> DOWN \in keys, ctrl_pressed |-> CTRL \in keys,
     unhandled_mouse_move |-> <<0, 0>>]

\* InputState::movement_key_pressed is called by Camera::update_speed but is
\* not part of input.rs as given: any of the six movement flags
movement_key_pressed(self) ==
    \/ self.forward_pressed \/ self.backward_pressed
    \/ self.left_pressed \/ self.right_pressed
    \/ self.space_pressed \/ self.shift_pressed

-----------------------------------------------------------------------------
(* Camera, src/src/camera.rs *)

INSTANCED_ROWS   == 50
INSTANCED_COLS   == 50
INSTANCE_SPACING == 3000

SPRINT_SPEED   == 10000
WALK_SPEED     == 5000
DEACCELERATION == 5000
ACCELERATION   == 5000
BORDER_SPACE   == 150000
SENS           == 20000
MAX_POS_Y      == 100000
FOVY           == 90000
ZNEAR          == 100
ZFAR           == 1000000
YAW_MAX        == 360000
PITCH_MAX      == 89990

MAX_POS == [x |-> INSTANCED_ROWS * INSTANCE_SPACING + BORDER_SPACE,
            y |-> MAX_POS_Y,
            z |-> INSTANCED_COLS * INSTANCE_SPACING + BORDER_SPACE]

MIN_POS == [x |-> -BORDER_SPACE, y |-> -BORDER_SPACE, z |-> -BORDER_SPACE]

Vec3(a, b, c) == [x |-> a, y |-> b, z |-> c]

\* cos of 0, 15, 30, ..., 360 degrees, in ten-thousandths
CosTable == <<10000, 9659, 8660, 7071, 5000, 2588, 0, -2588, -5000, -7071,
              -8660, -9659, -10000, -9659, -8660, -7071, -5000, -2588, 0,
              2588, 5000, 7071, 8660, 9659, 10000>>

\* f32::to_radians followed by f32::cos, for an angle in thousandths of a
\* degree; the result is in ten-thousandths
CosU(deg) ==
    LET a == deg % 360000
        k == a \div 15000
        r == a % 15000
    IN  CosTable[k + 1] + RoundDiv((CosTable[k + 2] - CosTable[k + 1]) * r, 15000)

SinU(deg) == CosU(deg + 270000)

\* the same in thousandths
Cos(deg) == RoundDiv(CosU(deg), 10)

Sin(deg) == RoundDiv(SinU(deg), 10)

\* a product of two numbers in ten-thousandths
MulU(a, b) == RoundDiv(a * b, UNIT)

NaN == "NaN"

\* Vector3::cross, for vectors in ten-thousandths
Cross(a, b) == Vec3(MulU(a.y, b.z) - MulU(a.z, b.y),
                    MulU(a.z, b.x) - MulU(a.x, b.z),
                    MulU(a.x, b.y) - MulU(a.y, b.x))

\* Vector3::normalize, for a vector in ten-thousandths.  A float keeps its
\* relative precision however short the vector is: the vector is first
\* scaled up (by k) to about unit length, and then divided by its magnitude.
\* The zero vector has magnitude 0 and every component becomes 0/0
Normalize(v) ==
    LET m == Max(Abs(v.x), Max(Abs(v.y), Abs(v.z)))
    IN  IF m = 0 THEN Vec3(NaN, NaN, NaN)
        ELSE LET k   == Max(UNIT \div m, 1)
                 w   == Vec3(v.x * k, v.y * k, v.z * k)
                 mag == Sqrt(w.x * w.x + w.y * w.y + w.z * w.z)
             IN  Vec3(RoundDiv(w.x * UNIT, mag), RoundDiv(w.y * UNIT, mag),
                      RoundDiv(w.z * UNIT, mag))

\* Vector2::magnitude
Magnitude2(v) == Sqrt(v[1] * v[1] + v[2] * v[2])

\* Vector2::dot
Dot2(a, b) == Mul(a[1], b[1]) + Mul(a[2], b[2])

\* Vector2::normalize_to: self * (magnitude / self.magnitude())
NormalizeTo2(v, m) ==
    LET ratio == Div(m, Magnitude2(v))
    IN  <<Mul(v[1], ratio), Mul(v[2], ratio)>>

\* Vector3::new(forward.x, 0.0, forward.z).normalize(), as <<x, z>> in
\* thousandths: forward is (cos yaw cos pitch, sin pitch, sin yaw cos pitch)
\* normalized and cos pitch > 0, so that its horizontal direction is
\* (cos yaw, sin yaw) whatever the pitch
HorizontalForward(self) == NormalizeTo2(<<Cos(self.yaw), Sin(self.yaw)>>, SCALE)

\* Vector3::new(right.x, 0.0, right.z).normalize(), as <<x, z>> in
\* thousandths: right is forward x WORLD_UP = (-forward.z, 0, forward.x)
\* normalized
HorizontalRight(self) == NormalizeTo2(<<-Sin(self.yaw), Cos(self.yaw)>>, SCALE)

\* (num / den).acos() > RIGHT_ANGLE.  With den = 0 the quotient is NaN or
\* infinite, and outside [-1, 1] acos is NaN: a comparison with NaN is false
AcosGtRightAngle(num, den) ==
    IF den = 0 THEN FALSE
    ELSE LET q == Div(num, den)
         IN  IF q < -SCALE \/ q > SCALE THEN FALSE ELSE q < 0

WORLD_UP == Vec3(0, UNIT, 0)

\* calc_vecs keeping forward x WORLD_UP as it is, without normalizing it
calc_vecs_right_not_normalized(self) ==
    LET cp      == CosU(self.pitch)
        forward == Vec3(MulU(CosU(self.yaw), cp), SinU(self.pitch),
                        MulU(SinU(self.yaw), cp))
        right   == Cross(forward, WORLD_UP)
    IN  IF right = Vec3(0, 0, 0)
        THEN [self EXCEPT !.forward = Normalize(forward),
                          !.right = Vec3(NaN, NaN, NaN),
                          !.up = Vec3(NaN, NaN, NaN)]
        ELSE [self EXCEPT !.forward = Normalize(forward),
                          !.right = right,
                          !.up = Normalize(Cross(right, forward))]

\* forward, right and up from yaw and pitch.  With forward vertical,
\* forward x WORLD_UP is the zero vector and right and up are not numbers
calc_vecs(self) ==
    LET cp      == CosU(self.pitch)
        forward == Vec3(MulU(CosU(self.yaw), cp), SinU(self.pitch),
                        MulU(SinU(self.yaw), cp))
        cross   == Cross(forward, WORLD_UP)
        right   == Normalize(cross)
    IN  IF cross = Vec3(0, 0, 0)
        THEN [self EXCEPT !.forward = Normalize(forward),
                          !.right = right,
                          !.up = Vec3(NaN, NaN, NaN)]
        ELSE [self EXCEPT !.forward = Normalize(forward),
                          !.right = right,
                          !.up = Normalize(Cross(right, forward))]

Camera_new(loc, yaw, pitch, aspect) ==
    calc_vecs([loc |-> loc, vel |-> Vec3(0, 0, 0), acc |-> Vec3(0, 0, 0),
               forward |-> Vec3(0, 0, 0), up |-> Vec3(0, 0, 0),
               right |-> Vec3(0, 0, 0),
               yaw |-> yaw, pitch |-> pitch, aspect |-> aspect,
               speed |-> WALK_SPEED])

\* the view-projection matrix, kept as the arguments it is computed from:
\* look_at_rh(eye, center, up) and perspective(fovy, aspect, near, far).
\* center is in ten-thousandths
build_view_proj(self) ==
    [eye    |-> self.loc,
     center |-> Vec3(10 * self.loc.x + self.forward.x,
                     10 * self.loc.y + self.forward.y,
                     10 * self.loc.z + self.forward.z),
     up     |-> self.up,
     fovy   |-> FOVY, aspect |-> self.aspect, near |-> ZNEAR, far |-> ZFAR]

\* step without the checks that stop at the target
step_overshoot(x, to, amp) ==
    IF x < to THEN x + amp ELSE x - amp

step(x, to, amp) ==
    IF x < to
    THEN IF x + amp > to THEN to ELSE x + amp
    ELSE IF x - amp < to THEN to ELSE x - amp

update_acc(self, inp) ==
    LET acc == ACCELERATION + DEACCELERATION
        ax  == (IF inp.forward_pressed THEN acc ELSE 0)
               - (IF inp.backward_pressed THEN acc ELSE 0)
        az  == (IF inp.right_pressed THEN acc ELSE 0)
               - (IF inp.left_pressed THEN acc ELSE 0)
        ay  == (IF inp.space_pressed THEN acc ELSE 0)
               - (IF inp.shift_pressed THEN acc ELSE 0)
    IN  [self EXCEPT !.acc = Vec3(ax, ay, az)]

\* the horizontal velocity <<x, z>> update_vel has after adding the
\* acceleration and before the friction
Accelerated(self, dt) ==
    LET forward == HorizontalForward(self)
        right   == HorizontalRight(self)
    IN  <<self.vel.x + Mul(Mul(self.acc.x, forward[1]), dt)
                     + Mul(Mul(self.acc.z, right[1]), dt),
          self.vel.z + Mul(Mul(self.acc.x, forward[2]), dt)
                     + Mul(Mul(self.acc.z, right[2]), dt)>>

\* the friction nudge of update_vel along the unit vector dir: the <<x, z>>
\* velocity after it
Nudge(dir, vel_2d, vx, vz, amp) ==
    IF AcosGtRightAngle(Dot2(dir, vel_2d),
                        Mul(Magnitude2(dir), Magnitude2(vel_2d)))
    THEN <<vx + Mul(dir[1], amp), vz + Mul(dir[2], amp)>>
        ELSE <<vx - Mul(dir[1], amp), vz - Mul(dir[2], amp)>>

\* update_vel accelerating along the tilted forward vector: the forward key
\* also lifts a camera that looks up
update_vel_tilted(self, dt) ==
    LET forward == HorizontalForward(self)
        right   == HorizontalRight(self)
        acc     == self.acc
        vx      == self.vel.x + Mul(Mul(acc.x, forward[1]), dt)
                              + Mul(Mul(acc.z, right[1]), dt)
        vz      == self.vel.z + Mul(Mul(acc.x, forward[2]), dt)
                              + Mul(Mul(acc.z, right[2]), dt)
        vy      == self.vel.y + Mul(acc.y, dt)
                              + Mul(Mul(acc.x, RoundDiv(self.forward.y, 10)), dt)
        amp     == Mul(dt, DEACCELERATION)
        vel_2d  == <<vx, vz>>
        h       == IF acc.x = 0 /\ acc.z # 0
                       THEN Nudge(forward, vel_2d, vx, vz, amp)
                   ELSE IF acc.x # 0 /\ acc.z = 0
                       THEN Nudge(right, vel_2d, vx, vz, amp)
                   ELSE IF acc.x = 0 /\ acc.z = 0 /\ vel_2d[1] # 0 /\ vel_2d[2] # 0
                       THEN NormalizeTo2(vel_2d, Max(Magnitude2(vel_2d) - amp, 0))
                   ELSE vel_2d
        y       == IF acc.y = 0 THEN step(vy, 0, amp) ELSE vy
    IN  [self EXCEPT !.vel = Vec3(h[1], y, h[2])]

update_vel(self, dt) ==
    LET forward == HorizontalForward(self)
        right   == HorizontalRight(self)
        acc     == self.acc
        vx      == self.vel.x + Mul(Mul(acc.x, forward[1]), dt)
                              + Mul(Mul(acc.z, right[1]), dt)
        vz      == self.vel.z + Mul(Mul(acc.x, forward[2]), dt)
                              + Mul(Mul(acc.z, right[2]), dt)
        vy      == self.vel.y + Mul(acc.y, dt)
        amp     == Mul(dt, DEACCELERATION)
        vel_2d  == <<vx, vz>>
        h       == IF acc.x = 0 /\ acc.z # 0
                       THEN Nudge(forward, vel_2d, vx, vz, amp)
                   ELSE IF acc.x # 0 /\ acc.z = 0
                       THEN Nudge(right, vel_2d, vx, vz, amp)
                   ELSE IF acc.x = 0 /\ acc.z = 0 /\ vel_2d[1] # 0 /\ vel_2d[2] # 0
                       THEN NormalizeTo2(vel_2d, Max(Magnitude2(vel_2d) - amp, 0))
                   ELSE vel_2d
        y       == IF acc.y = 0 THEN step(vy, 0, amp) ELSE vy
    IN  [self EXCEPT !.vel = Vec3(h[1], y, h[2])]

\* update_speed switching between the two speeds at once
update_speed_snap(self, dt, inp) ==
    [self EXCEPT !.speed = IF inp.ctrl_pressed /\ movement_key_pressed(inp)
                           THEN SPRINT_SPEED ELSE WALK_SPEED]

update_speed(self, dt, inp) ==
    LET s1 == IF inp.ctrl_pressed /\ movement_key_pressed(inp)
              THEN self.speed + Mul(dt, 5000)
              ELSE self.speed - Mul(dt, 5000)
        s2 == IF s1 > SPRINT_SPEED THEN SPRINT_SPEED ELSE s1
        s3 == IF s2 < WALK_SPEED THEN WALK_SPEED ELSE s2
    IN  [self EXCEPT !.speed = s3]

\* update_loc moving by the velocity alone, without the speed factor
update_loc_no_speed(self, dt) ==
    LET v == self.vel
    IN  [self EXCEPT !.loc = Vec3(self.loc.x + Mul(v.x, dt),
                                  self.loc.y + Mul(v.y, dt),
                                  self.loc.z + Mul(v.z, dt))]

update_loc(self, dt) ==
    LET s == self.speed
        v == self.vel
    IN  [self EXCEPT !.loc = Vec3(self.loc.x + Mul(Mul(s, v.x), dt),
                                  self.loc.y + Mul(Mul(s, v.y), dt),
                                  self.loc.z + Mul(Mul(s, v.z), dt))]

\* a bound check that clamps the position and keeps the velocity
Bounce_keep_vel(self, axis, bound, sign) ==
    IF sign * self.loc[axis] > sign * bound
    THEN [self EXCEPT !.loc[axis] = bound]
    ELSE self

\* a bound check that also fires on the bound itself
Bounce_inclusive(self, axis, bound, sign) ==
    IF sign * self.loc[axis] >= sign * bound
    THEN [self EXCEPT !.loc[axis] = bound, !.vel[axis] = -self.vel[axis]]
    ELSE self

\* one of the six bound checks of update_pos: above the bound when sign = 1,
\* below it when sign = -1
Bounce(self, axis, bound, sign) ==
    IF sign * self.loc[axis] > sign * bound
    THEN [self EXCEPT !.loc[axis] = bound, !.vel[axis] = -self.vel[axis]]
    ELSE self

\* update_pos up to and including update_loc, before the bound checks
Integrate(self, dt, inp) ==
    update_loc(update_speed(update_vel(update_acc(self, inp), dt), dt, inp), dt)

\* the six bound checks of update_pos, in the order of the code
Bounds(self) ==
    LET c1 == Bounce(self, "x", MAX_POS.x, 1)
        c2 == Bounce(c1, "y", MAX_POS.y, 1)
        c3 == Bounce(c2, "z", MAX_POS.z, 1)
        c4 == Bounce(c3, "x", MIN_POS.x, -1)
        c5 == Bounce(c4, "y", MIN_POS.y, -1)
    IN  Bounce(c5, "z", MIN_POS.z, -1)

update_pos(self, dt, inp) == Bounds(Integrate(self, dt, inp))

\* update_look without the lower pitch clamp
update_look_no_lower_clamp(self, look, dt) ==
    LET yaw1   == self.yaw + Mul(Mul(SENS, look[1]), dt)
        pitch1 == self.pitch + Mul(Mul(SENS, -look[2]), dt)
        yaw2   == IF yaw1 > YAW_MAX THEN 0 ELSE yaw1
        yaw3   == IF yaw2 < 0 THEN YAW_MAX ELSE yaw2
        pitch2 == IF pitch1 > PITCH_MAX THEN PITCH_MAX ELSE pitch1
    IN  calc_vecs([self EXCEPT !.yaw = yaw3, !.pitch = pitch2])

\* update_look with the vertical mouse axis not inverted
update_look_pitch_not_inverted(self, look, dt) ==
    LET yaw1   == self.yaw + Mul(Mul(SENS, look[1]), dt)
        pitch1 == self.pitch + Mul(Mul(SENS, look[2]), dt)
        yaw2   == IF yaw1 > YAW_MAX THEN 0 ELSE yaw1
        yaw3   == IF yaw2 < 0 THEN YAW_MAX ELSE yaw2
        pitch2 == IF pitch1 > PITCH_MAX THEN PITCH_MAX ELSE pitch1
        pitch3 == IF pitch2 < -PITCH_MAX THEN -PITCH_MAX ELSE pitch2
    IN  calc_vecs([self EXCEPT !.yaw = yaw3, !.pitch = pitch3])

\* update_look without the final calc_vecs: the basis vectors stay as they
\* were
update_look_stale_basis(self, look, dt) ==
    LET yaw1   == self.yaw + Mul(Mul(SENS, look[1]), dt)
        pitch1 == self.pitch + Mul(Mul(SENS, -look[2]), dt)
        yaw2   == IF yaw1 > YAW_MAX THEN 0 ELSE yaw1
        yaw3   == IF yaw2 < 0 THEN YAW_MAX ELSE yaw2
        pitch2 == IF pitch1 > PITCH_MAX THEN PITCH_MAX ELSE pitch1
        pitch3 == IF pitch2 < -PITCH_MAX THEN -PITCH_MAX ELSE pitch2
    IN  [self EXCEPT !.yaw = yaw3, !.pitch = pitch3]

update_look(self, look, dt) ==
    LET yaw1   == self.yaw + Mul(Mul(SENS, look[1]), dt)
        pitch1 == self.pitch + Mul(Mul(SENS, -look[2]), dt)
        yaw2   == IF yaw1 > YAW_MAX THEN 0 ELSE yaw1
        yaw3   == IF yaw2 < 0 THEN YAW_MAX ELSE yaw2
        pitch2 == IF pitch1 > PITCH_MAX THEN PITCH_MAX ELSE pitch1
        pitch3 == IF pitch2 < -PITCH_MAX THEN -PITCH_MAX ELSE pitch2
    IN  calc_vecs([self EXCEPT !.yaw = yaw3, !.pitch = pitch3])

\* set_aspect storing the ratio in the neighbouring f32 field
set_aspect_as_speed(self, aspect) == [self EXCEPT !.speed = aspect]

set_aspect(self, aspect) == [self EXCEPT !.aspect = aspect]

-----------------------------------------------------------------------------
(* App, src/src/app.rs.  An operation takes the App's own fields (self),    *)
(* its input_state and its camera, and gives the three after it.            *)

\* width as f32 / height as f32, for a size <<width, height>> in pixels
AspectOf(size) == RoundDiv(size[1] * SCALE, size[2])

\* the App's own fields after App::new, for a window of the given size and
\* the camera App::new made
App_new(size, cam) ==
    [size            |-> size,
     config          |-> size,
     depth_texture   |-> size,
     clear_color     |-> [r |-> 0, g |-> 250, b |-> 0],
     selected_obj    |-> 1,
     cooldowns       |-> <<0, 0>>,
     delta_time      |-> 0,
     num_instances   |-> <<INSTANCED_ROWS * INSTANCED_COLS,
                           INSTANCED_ROWS * INSTANCED_COLS>>,
     shown_instances |-> <<INSTANCED_ROWS * INSTANCED_COLS,
                           INSTANCED_ROWS * INSTANCED_COLS>>,
     camera_uniform  |-> build_view_proj(cam)]

\* the camera App::new makes
App_camera(size) == Camera_new(Vec3(0, 0, 0), 45000, 0, AspectOf(size))

Bundle(self, inp, cam) == [app |-> self, input_state |-> inp, camera |-> cam]

\* resize storing the new size without telling the camera
App_resize_keeps_aspect(self, inp, cam, new_size) ==
    IF new_size[1] > 0 /\ new_size[2] > 0
    THEN Bundle([self EXCEPT !.size = new_size, !.config = new_size,
                             !.depth_texture = new_size], inp, cam)
    ELSE Bundle(self, inp, cam)

\* resize testing the height only
App_resize_height_only(self, inp, cam, new_size) ==
    IF new_size[2] > 0
    THEN Bundle([self EXCEPT !.size = new_size, !.config = new_size,
                             !.depth_texture = new_size],
                inp, set_aspect(cam, AspectOf(new_size)))
    ELSE Bundle(self, inp, cam)

App_resize(self, inp, cam, new_size) ==
    IF new_size[1] > 0 /\ new_size[2] > 0
    THEN Bundle([self EXCEPT !.size = new_size, !.config = new_size,
                             !.depth_texture = new_size],
                inp, set_aspect(cam, AspectOf(new_size)))
    ELSE Bundle(self, inp, cam)

\* the events App::input looks at; every other event has type "Other"
NoEvent == [type |-> "None"]

\* input recording key events whether or not the window is focused
App_input_unfocused_keys(self, inp, cam, window_event, device_event, focused) ==
    LET w == IF window_event.type = "KeyboardInput"
                 THEN Bundle(self, update_keyboard(inp, window_event.input), cam)
             ELSE IF window_event.type = "Resized"
                 THEN App_resize(self, inp, cam, window_event.new_size)
             ELSE IF window_event.type = "ScaleFactorChanged"
                 THEN App_resize(self, inp, cam, window_event.new_inner_size)
             ELSE Bundle(self, inp, cam)
    IN  IF device_event.type = "MouseMotion" /\ focused
        THEN Bundle(w.app, update_mouse(w.input_state, device_event.delta),
                    w.camera)
        ELSE w

App_input(self, inp, cam, window_event, device_event, focused) ==
    LET w == IF window_event.type = "KeyboardInput" /\ focused
                 THEN Bundle(self, update_keyboard(inp, window_event.input), cam)
             ELSE IF window_event.type = "Resized"
                 THEN App_resize(self, inp, cam, window_event.new_size)
             ELSE IF window_event.type = "ScaleFactorChanged"
                 THEN App_resize(self, inp, cam, window_event.new_inner_size)
             ELSE Bundle(self, inp, cam)
    IN  IF device_event.type = "MouseMotion" /\ focused
        THEN Bundle(w.app, update_mouse(w.input_state, device_event.delta),
                    w.camera)
        ELSE w

\* a colour channel kept within [0, 1]
Saturate(c) == IF c > SCALE THEN SCALE ELSE IF c < 0 THEN 0 ELSE c

\* the selection toggling in every frame with tab held, whatever the cooldown
App_update_ui_no_cooldown(self, inp) ==
    LET toggle == inp.tab_pressed
        sel    == IF toggle
                  THEN (IF self.selected_obj = 0 THEN 1 ELSE 0)
                  ELSE self.selected_obj
        cd0    == IF toggle THEN SCALE ELSE self.cooldowns[1]
        up     == inp.up_pressed /\ self.cooldowns[2] <= 750
        sh1    == IF up /\ sel \in {0, 1}
                     /\ self.shown_instances[sel + 1] < self.num_instances[sel + 1]
                  THEN [self.shown_instances EXCEPT ![sel + 1] = @ + 1]
                  ELSE self.shown_instances
        cd1    == IF up THEN SCALE ELSE self.cooldowns[2]
        down   == inp.down_pressed /\ cd1 <= 750
        sh2    == IF down /\ sel \in {0, 1} /\ sh1[sel + 1] > 0
                  THEN [sh1 EXCEPT ![sel + 1] = @ - 1]
                  ELSE sh1
        cd2    == IF down THEN SCALE ELSE cd1
    IN  [self EXCEPT !.selected_obj = sel, !.shown_instances = sh2,
                     !.cooldowns = <<cd0 - Mul(self.delta_time, 5000),
                                     cd2 - Mul(self.delta_time, 5000)>>]

\* the counters changing without the tests against num_instances and 0
App_update_ui_no_limits(self, inp) ==
    LET toggle == inp.tab_pressed /\ self.cooldowns[1] <= 0
        sel    == IF toggle
                  THEN (IF self.selected_obj = 0 THEN 1 ELSE 0)
                  ELSE self.selected_obj
        cd0    == IF toggle THEN SCALE ELSE self.cooldowns[1]
        up     == inp.up_pressed /\ self.cooldowns[2] <= 750
        sh1    == IF up /\ sel \in {0, 1}
                  THEN [self.shown_instances EXCEPT ![sel + 1] = @ + 1]
                  ELSE self.shown_instances
        cd1    == IF up THEN SCALE ELSE self.cooldowns[2]
        down   == inp.down_pressed /\ cd1 <= 750
        sh2    == IF down /\ sel \in {0, 1}
                  THEN [sh1 EXCEPT ![sel + 1] = @ - 1]
                  ELSE sh1
        cd2    == IF down THEN SCALE ELSE cd1
    IN  [self EXCEPT !.selected_obj = sel, !.shown_instances = sh2,
                     !.cooldowns = <<cd0 - Mul(self.delta_time, 5000),
                                     cd2 - Mul(self.delta_time, 5000)>>]

\* App::update up to and including the countdown of the cooldowns: the
\* selection toggle and the shown-instance counters
App_update_ui(self, inp) ==
    LET toggle == inp.tab_pressed /\ self.cooldowns[1] <= 0
        sel    == IF toggle
                  THEN (IF self.selected_obj = 0 THEN 1 ELSE 0)
                  ELSE self.selected_obj
        cd0    == IF toggle THEN SCALE ELSE self.cooldowns[1]
        up     == inp.up_pressed /\ self.cooldowns[2] <= 750
        sh1    == IF up /\ sel \in {0, 1}
                     /\ self.shown_instances[sel + 1] < self.num_instances[sel + 1]
                  THEN [self.shown_instances EXCEPT ![sel + 1] = @ + 1]
                  ELSE self.shown_instances
        cd1    == IF up THEN SCALE ELSE self.cooldowns[2]
        down   == inp.down_pressed /\ cd1 <= 750
        sh2    == IF down /\ sel \in {0, 1} /\ sh1[sel + 1] > 0
                  THEN [sh1 EXCEPT ![sel + 1] = @ - 1]
                  ELSE sh1
        cd2    == IF down THEN SCALE ELSE cd1
    IN  [self EXCEPT !.selected_obj = sel, !.shown_instances = sh2,
                     !.cooldowns = <<cd0 - Mul(self.delta_time, 5000),
                                     cd2 - Mul(self.delta_time, 5000)>>]

\* the clear colour after a mouse move of (offset_x, offset_y)
App_update_color(c, mouse_move) ==
    [r |-> Saturate(c.r + RoundDiv(mouse_move[1], 2500)),
     g |-> Saturate(c.g),
     b |-> Saturate(c.b + RoundDiv(mouse_move[2], 2500))]

\* App::update with update_look before update_pos
App_update_look_first(self, inp, cam) ==
    LET ui    == App_update_ui(self, inp)
        moved == get_unhandled_mouse_move(inp)
        cam1  == update_look(cam, moved[1], ui.delta_time)
        cam2  == update_pos(cam1, ui.delta_time, moved[2])
    IN  Bundle([ui EXCEPT !.clear_color = App_update_color(@, moved[1]),
                          !.camera_uniform = build_view_proj(cam2)],
               moved[2], cam2)

\* App::update: the model matrices it also uploads depend on the wall clock
\* only and are left out
App_update(self, inp, cam) ==
    LET ui    == App_update_ui(self, inp)
        moved == get_unhandled_mouse_move(inp)
        cam1  == update_pos(cam, ui.delta_time, moved[2])
        cam2  == update_look(cam1, moved[1], ui.delta_time)
    IN  Bundle([ui EXCEPT !.clear_color = App_update_color(@, moved[1]),
                          !.camera_uniform = build_view_proj(cam2)],
               moved[2], cam2)

-----------------------------------------------------------------------------
(* The event loop, src/src/main.rs.  This file has an App and an InputState *)
(* of its own.  The surface is kept as the size it was last configured with *)
(* and the number of times it has been configured.  The loop is the record  *)
(* of its control_flow, its App, the number of events handed to app.input   *)
(* and the errors printed.                                                  *)

\* the App of main.rs after App::new, for a window of the given size
Main_App_new(size) ==
    [size        |-> size,
     config      |-> size,
     surface     |-> [config |-> size, configures |-> 1],
     clear_color |-> [r |-> 0, g |-> 0, b |-> 0],
     input_state |-> [space_pressed |-> FALSE, toggle_cooldown |-> SCALE,
                      obj |-> 0]]

Main_App_resize(self, new_size) ==
    IF new_size[1] > 0 /\ new_size[2] > 0
    THEN [self EXCEPT !.size = new_size, !.config = new_size,
                      !.surface = [config |-> new_size,
                                   configures |-> @.configures + 1]]
    ELSE self

\* App::input of main.rs; a cursor position is in thousandths of a pixel
Main_App_input(self, event) ==
    IF event.type = "CursorMoved"
        THEN [self EXCEPT !.clear_color.g = RoundDiv(event.position[1], self.size[1]),
                          !.clear_color.b = RoundDiv(event.position[2], self.size[2])]
    ELSE IF event.type = "KeyboardInput" /\ event.input.virtual_keycode = SPACE
        THEN [self EXCEPT !.input_state.space_pressed =
                              (event.input.state = "Pressed")]
    ELSE IF event.type = "Resized"
        THEN Main_App_resize(self, event.new_size)
    ELSE IF event.type = "ScaleFactorChanged"
        THEN Main_App_resize(self, event.new_inner_size)
    ELSE self

EscapePressed == [state |-> "Pressed", virtual_keycode |-> "Escape"]

\* the loop when run_app enters event_loop.run
Main_new(size) ==
    [control_flow |-> "Poll", app |-> Main_App_new(size), forwarded |-> 0,
     stderr |-> <<>>]

\* the closure of run_app treating a lost surface as any other error
run_app_lost_is_printed(self, event) ==
    IF event.type = "WindowEvent"
    THEN IF \/ event.event.type = "CloseRequested"
            \/ (event.event.type = "KeyboardInput"
                /\ event.event.input = EscapePressed)
         THEN [self EXCEPT !.control_flow = "Exit"]
         ELSE [self EXCEPT !.app = Main_App_input(@, event.event),
                           !.forwarded = @ + 1]
    ELSE IF event.type = "RedrawRequested"
    THEN IF event.render = "Ok" THEN self
         ELSE IF event.render = "OutOfMemory"
             THEN [self EXCEPT !.control_flow = "Exit"]
         ELSE [self EXCEPT !.stderr = Append(@, event.render)]
    ELSE IF event.type = "MainEventsCleared"
    THEN LET i      == self.app.input_state
             toggle == i.space_pressed /\ i.toggle_cooldown <= 0
             obj    == IF ~toggle THEN i.obj ELSE IF i.obj = 0 THEN 1 ELSE 0
             cd     == IF toggle THEN SCALE ELSE i.toggle_cooldown
         IN  [self EXCEPT !.app.input_state.obj = obj,
                          !.app.input_state.toggle_cooldown = cd - 10]
    ELSE self

\* the closure run_app passes to event_loop.run, called with one event of
\* the window; a RedrawRequested event carries the result app.render will
\* give, Ok or a wgpu::SurfaceError
run_app(self, event) ==
    IF event.type = "WindowEvent"
    THEN IF \/ event.event.type = "CloseRequested"
            \/ (event.event.type = "KeyboardInput"
                /\ event.event.input = EscapePressed)
         THEN [self EXCEPT !.control_flow = "Exit"]
         ELSE [self EXCEPT !.app = Main_App_input(@, event.event),
                           !.forwarded = @ + 1]
    ELSE IF event.type = "RedrawRequested"
    THEN IF event.render = "Ok" THEN self
         ELSE IF event.render = "Lost"
             THEN [self EXCEPT !.app = Main_App_resize(@, @.size)]
         ELSE IF event.render = "OutOfMemory"
             THEN [self EXCEPT !.control_flow = "Exit"]
         ELSE [self EXCEPT !.stderr = Append(@, event.render)]
    ELSE IF event.type = "MainEventsCleared"
    THEN LET i      == self.app.input_state
             toggle == i.space_pressed /\ i.toggle_cooldown <= 0
             obj    == IF ~toggle THEN i.obj ELSE IF i.obj = 0 THEN 1 ELSE 0
             cd     == IF toggle THEN SCALE ELSE i.toggle_cooldown
         IN  [self EXCEPT !.app.input_state.obj = obj,
                          !.app.input_state.toggle_cooldown = cd - 10]
    ELSE self

-----------------------------------------------------------------------------
(* Inputs of the exploration. *)

\* frame times in thousandths of a second
DtSet == {0, 100, 300}

\* the sets of keys held during a frame
HeldSets == {{}, {FORWARD}, {BACK}, {RIGHT}, {FORWARD, BACK}, {SPACE},
             {FORWARD, CTRL}, {LEFT, SHIFT}}

StartLocs == {Vec3(0, 0, 0),
              Vec3(MAX_POS.x - 500, MAX_POS.y - 500, MAX_POS.z - 500),
              Vec3(MIN_POS.x, MIN_POS.y + 250, MIN_POS.z),
              Vec3(MAX_POS.x + 1000, MIN_POS.y - 1000, 0)}

StartYaws == {0, 45000, 180000}

StartPitches == {0, 60000, -89000}

Aspects == {1778, 1333}

\* the inner size of the window the application is started with
WindowSize == <<1280, 720>>

\* the history of a call: its name, arguments and result, the camera before
\* it, the camera between update_loc and the bound checks (update_pos only),
\* and the name and result of the call before it
Called(op, arg, ret, mid) ==
    [op |-> op, arg |-> arg, ret |-> ret, pre |-> camera, mid |-> mid,
     prev |-> <<call.op, call.ret>>]

\* the App's own fields where the camera or the input table is exercised
\* on its own: those App::new gives
NoApp == App_new(WindowSize, App_camera(WindowSize))

NoCoast == [dt |-> 0, frames |-> 0, vy0 |-> 0]

\* the event loop where the application of app.rs, its camera or its input
\* table is exercised: as event_loop.run finds it
NoMain == Main_new(WindowSize)

NoCall == [op |-> "new", arg |-> None, ret |-> None, pre |-> None,
           mid |-> None, prev |-> <<None, None>>]

-----------------------------------------------------------------------------
(* The input table on its own: key events, mouse motion and the per-frame *)
(* consumption of the pending delta, in any order.                         *)

InitInput ==
    /\ input = InputState_new
    /\ camera = Camera_new(Vec3(0, 0, 0), 45000, 0, 1778)
    /\ app = NoApp
    /\ call = NoCall
    /\ pending = None
    /\ steps = 0
    /\ coast = NoCoast
    /\ main = NoMain

UpdateKeyboard(ev) ==
    /\ steps < MaxKeys
    /\ steps' = steps + 1
    /\ input' = update_keyboard(input, ev)
    /\ call' = Called("update_keyboard", ev, None, None)
    /\ UNCHANGED <<main, app, camera, pending, coast>>

UpdateMouse(delta) ==
    /\ input' = update_mouse(input, delta)
    /\ pending' = delta
    /\ call' = Called("update_mouse", delta, None, None)
    /\ UNCHANGED <<main, app, camera, steps, coast>>

GetUnhandledMouseMove ==
    LET r == get_unhandled_mouse_move(input)
    IN  /\ input' = r[2]
        /\ pending' = None
        /\ call' = Called("get_unhandled_mouse_move", None, r[1], None)
        /\ UNCHANGED <<main, app, camera, steps, coast>>

GetMovement ==
    /\ call' = Called("get_movement", None, get_movement(input), None)
    /\ UNCHANGED <<main, app, input, camera, pending, steps, coast>>

NextInput ==
    \/ \E ev \in KeyboardInput : UpdateKeyboard(ev)
    \/ \E delta \in MouseDeltas : UpdateMouse(delta)
    \/ GetUnhandledMouseMove
    \/ GetMovement

SpecInput == InitInput /\ [][NextInput]_vars

-----------------------------------------------------------------------------
(* The look half of the camera: update_look and set_aspect on a camera made *)
(* by Camera::new.                                                          *)

InitLook ==
    /\ input = InputState_new
    /\ camera \in {Camera_new(Vec3(0, 0, 0), yaw, pitch, 1778) :
                     yaw \in StartYaws, pitch \in StartPitches}
    /\ app = NoApp
    /\ call = NoCall
    /\ pending = None
    /\ steps = 0
    /\ coast = NoCoast
    /\ main = NoMain

UpdateLook(look, dt) ==
    /\ camera' = update_look(camera, look, dt)
    /\ call' = Called("update_look", <<look, dt>>, None, None)
    /\ UNCHANGED <<main, app, input, pending, steps, coast>>

SetAspect(aspect) ==
    /\ camera' = set_aspect(camera, aspect)
    /\ call' = Called("set_aspect", aspect, None, None)
    /\ UNCHANGED <<main, app, input, pending, steps, coast>>

BuildViewProj ==
    /\ call' = Called("build_view_proj", None, build_view_proj(camera), None)
    /\ UNCHANGED <<main, app, input, camera, pending, steps, coast>>

NextLook ==
    \/ \E look \in MouseDeltas, dt \in DtSet : UpdateLook(look, dt)
    \/ \E aspect \in Aspects : SetAspect(aspect)
    \/ BuildViewProj

SpecLook == InitLook /\ [][NextLook]_vars

-----------------------------------------------------------------------------
(* The application: window and device events and frames, in any order, up  *)
(* to MaxApp of them.  The event loop writes delta_time before it calls    *)
(* App::update.                                                            *)

AppKeyEvents ==
    {[state |-> "Pressed", virtual_keycode |-> FORWARD],
     [state |-> "Released", virtual_keycode |-> FORWARD],
     [state |-> "Pressed", virtual_keycode |-> TAB],
     [state |-> "Pressed", virtual_keycode |-> UP]}

AppMouseDeltas == {<<15000, -45000>>, <<-15000, 45000>>}

\* new sizes of the window; a minimized window has a zero side
NewSizes == {<<800, 600>>, <<0, 600>>, <<800, 0>>}

InitApp ==
    /\ input = InputState_new
    /\ camera = App_camera(WindowSize)
    /\ app = App_new(WindowSize, camera)
    /\ call = NoCall
    /\ pending = None
    /\ steps = 0
    /\ coast = NoCoast
    /\ main = NoMain

\* the variables after an App operation that gave the bundle b
AppStep(b) ==
    /\ steps < MaxApp
    /\ steps' = steps + 1
    /\ app' = b.app
    /\ input' = b.input_state
    /\ camera' = b.camera
    /\ UNCHANGED <<main, pending, coast>>

KeyboardEvent(ev, focused) ==
    /\ AppStep(App_input(app, input, camera,
                         [type |-> "KeyboardInput", input |-> ev],
                         NoEvent, focused))
    /\ call' = Called("KeyboardInput", <<ev, focused>>, None, None)

\* the history keeps the window's focus as the result of a resize event
Resized(new_size, focused) ==
    /\ AppStep(App_input(app, input, camera,
                         [type |-> "Resized", new_size |-> new_size],
                         NoEvent, focused))
    /\ call' = Called("Resized", new_size, focused, None)

ScaleFactorChanged(new_size, focused) ==
    /\ AppStep(App_input(app, input, camera,
                         [type |-> "ScaleFactorChanged",
                          new_inner_size |-> new_size],
                         NoEvent, focused))
    /\ call' = Called("ScaleFactorChanged", new_size, focused, None)

OtherEvent ==
    /\ AppStep(App_input(app, input, camera, [type |-> "Other"],
                         [type |-> "Other"], TRUE))
    /\ call' = Called("Other", None, None, None)

MouseMotion(delta, focused) ==
    /\ AppStep(App_input(app, input, camera, NoEvent,
                         [type |-> "MouseMotion", delta |-> delta], focused))
    /\ call' = Called("MouseMotion", <<delta, focused>>, None, None)

\* a frame: the loop stores the elapsed time dt and calls App::update.  The
\* history keeps the delta the frame consumed and the camera between
\* update_pos and update_look
Frame(dt) ==
    LET self == [app EXCEPT !.delta_time = dt]
    IN  /\ AppStep(App_update(self, input, camera))
        /\ call' = Called("App::update", dt, input.unhandled_mouse_move,
                           update_pos(camera, dt,
                                      get_unhandled_mouse_move(input)[2]))

NextApp ==
    \/ \E ev \in AppKeyEvents, focused \in BOOLEAN : KeyboardEvent(ev, focused)
    \/ \E new_size \in NewSizes, focused \in BOOLEAN :
           Resized(new_size, focused)
    \/ \E new_size \in NewSizes, focused \in BOOLEAN :
           ScaleFactorChanged(new_size, focused)
    \/ OtherEvent
    \/ \E delta \in AppMouseDeltas, focused \in BOOLEAN :
           MouseMotion(delta, focused)
    \/ \E dt \in DtSet : Frame(dt)

SpecApp == InitApp /\ [][NextApp]_vars

-----------------------------------------------------------------------------
(* The movement half of the camera: up to MaxSteps calls of update_pos on a *)
(* camera made by Camera::new, each with some keys held and some frame time. *)

Init ==
    /\ input = InputState_new
    /\ camera \in {Camera_new(loc, yaw, 0, 1778) :
                     loc \in StartLocs, yaw \in StartYaws}
    /\ app = NoApp
    /\ call = NoCall
    /\ pending = None
    /\ steps = 0
    /\ coast = NoCoast
    /\ main = NoMain

UpdatePos(dt, keys) ==
    /\ steps < MaxSteps
    /\ steps' = steps + 1
    /\ camera' = update_pos(camera, dt, Held(keys))
    /\ call' = Called("update_pos", <<dt, keys>>, None,
                       Integrate(camera, dt, Held(keys)))
    /\ UNCHANGED <<main, app, input, pending, coast>>

Next == \E dt \in DtSet, keys \in HeldSets : UpdatePos(dt, keys)

Spec == Init /\ [][Next]_vars

-----------------------------------------------------------------------------
(* Flight and coasting: up to MaxFlight frames with keys held, then up to   *)
(* CoastFrames frames with every key released and one constant positive    *)
(* frame time.                                                              *)

FlightSets == {{}, {FORWARD}, {RIGHT}, {SPACE}, {BACK, SHIFT}}

PositiveDts == DtSet \ {0}

InitCoast ==
    /\ input = InputState_new
    /\ camera \in {Camera_new(Vec3(0, 0, 0), yaw, 0, 1778) : yaw \in {0, 180000}}
    /\ app = NoApp
    /\ call = NoCall
    /\ pending = None
    /\ steps = 0
    /\ coast = NoCoast
    /\ main = NoMain

\* the vertical speed gained in flight is at most 3 per frame (acceleration
\* 10 over 0.3 s) and a coasting frame removes at least 0.5 (5 over 0.1 s):
\* 6 coasting frames per flight frame bring it to zero, and 2 more show it
\* staying there
CoastFrames == 6 * MaxFlight + 2

Fly(dt, keys) ==
    /\ coast = NoCoast
    /\ steps < MaxFlight
    /\ steps' = steps + 1
    /\ camera' = update_pos(camera, dt, Held(keys))
    /\ call' = Called("update_pos", <<dt, keys>>, None,
                       Integrate(camera, dt, Held(keys)))
    /\ UNCHANGED <<main, app, input, pending, coast>>

Coast(dt) ==
    /\ coast.dt \in {0, dt}
    /\ coast.frames < CoastFrames
    /\ coast' = [dt |-> dt, frames |-> coast.frames + 1,
                 vy0 |-> IF coast.dt = 0 THEN camera.vel.y ELSE coast.vy0]
    /\ camera' = update_pos(camera, dt, Held({}))
    /\ call' = Called("update_pos", <<dt, {}>>, None,
                       Integrate(camera, dt, Held({})))
    /\ UNCHANGED <<main, app, input, pending, steps>>

NextCoast ==
    \/ \E dt \in PositiveDts, keys \in FlightSets : Fly(dt, keys)
    \/ \E dt \in PositiveDts : Coast(dt)

SpecCoast == InitCoast /\ [][NextCoast]_vars

-----------------------------------------------------------------------------
(* Walking and sprinting: up to MaxWalk calls of update_pos or update_look, *)
(* with the sprint key among the keys and frame times long enough for the   *)
(* speed to reach its cap, and frames of no duration among them.            *)

WalkSets == {{}, {CTRL}, {FORWARD}, {FORWARD, CTRL}}

WalkDts == {0, 300, 600}

WalkLooks == {<<0, 0>>, <<15000, -45000>>}

InitWalk ==
    /\ input = InputState_new
    /\ camera \in {Camera_new(loc, 45000, 0, 1778) :
                     loc \in {Vec3(0, 0, 0), MAX_POS}}
    /\ app = NoApp
    /\ call = NoCall
    /\ pending = None
    /\ steps = 0
    /\ coast = NoCoast
    /\ main = NoMain

Walk(dt, keys) ==
    /\ steps < MaxWalk
    /\ steps' = steps + 1
    /\ camera' = update_pos(camera, dt, Held(keys))
    /\ call' = Called("update_pos", <<dt, keys>>, None,
                       Integrate(camera, dt, Held(keys)))
    /\ UNCHANGED <<main, app, input, pending, coast>>

Look(look, dt) ==
    /\ steps < MaxWalk
    /\ steps' = steps + 1
    /\ camera' = update_look(camera, look, dt)
    /\ call' = Called("update_look", <<look, dt>>, None, None)
    /\ UNCHANGED <<main, app, input, pending, coast>>

NextWalk ==
    \/ \E dt \in WalkDts, keys \in WalkSets : Walk(dt, keys)
    \/ \E look \in WalkLooks, dt \in {0, 300} : Look(look, dt)

SpecWalk == InitWalk /\ [][NextWalk]_vars

-----------------------------------------------------------------------------
(* Strafing: up to MaxStrafe calls of update_pos in which the keys change   *)
(* from frame to frame, so that a frame's acceleration can cancel the       *)
(* velocity the frames before it left.                                      *)

StrafeSets == {{FORWARD, RIGHT}, {LEFT}, {RIGHT}, {FORWARD}}

InitStrafe ==
    /\ input = InputState_new
    /\ camera = Camera_new(Vec3(0, 0, 0), 0, 0, 1778)
    /\ app = NoApp
    /\ call = NoCall
    /\ pending = None
    /\ steps = 0
    /\ coast = NoCoast
    /\ main = NoMain

Strafe(dt, keys) ==
    /\ steps < MaxStrafe
    /\ steps' = steps + 1
    /\ camera' = update_pos(camera, dt, Held(keys))
    /\ call' = Called("update_pos", <<dt, keys>>, None,
                       Integrate(camera, dt, Held(keys)))
    /\ UNCHANGED <<main, app, input, pending, coast>>

NextStrafe == \E dt \in PositiveDts, keys \in StrafeSets : Strafe(dt, keys)

SpecStrafe == InitStrafe /\ [][NextStrafe]_vars

-----------------------------------------------------------------------------
(* A run at sixty frames a second: up to MaxRun calls of update_pos with the *)
(* same keys held in every frame, on a camera at rest at the origin, looking *)
(* along +x.  A sixtieth of a second is no whole number of thousandths: the  *)
(* clock counts in thousandths, frame n ends when it reads n / 60 s rounded, *)
(* and a frame's dt is the difference of two readings, 16 or 17.             *)

RunSets == {{FORWARD}, {BACK}, {FORWARD, CTRL}}

\* the clock's reading at the end of frame n
Elapsed(n) == RoundDiv(n * SCALE, 60)

InitRun ==
    /\ input = InputState_new
    /\ camera = Camera_new(Vec3(0, 0, 0), 0, 0, 1778)
    /\ app = NoApp
    /\ call = NoCall
    /\ pending = None
    /\ steps = 0
    /\ coast = NoCoast
    /\ main = NoMain

Run(keys) ==
    LET dt == Elapsed(steps + 1) - Elapsed(steps)
    IN  /\ steps < MaxRun
        /\ IF steps = 0 THEN TRUE ELSE keys = call.arg[2]
        /\ steps' = steps + 1
        /\ camera' = update_pos(camera, dt, Held(keys))
        /\ call' = Called("update_pos", <<dt, keys>>, None,
                           Integrate(camera, dt, Held(keys)))
        /\ UNCHANGED <<main, app, input, pending, coast>>

NextRun == \E keys \in RunSets : Run(keys)

SpecRun == InitRun /\ [][NextRun]_vars

-----------------------------------------------------------------------------
(* Moving while looking up or down: up to MaxTilt calls of update_pos on     *)
(* cameras constructed with several yaws and pitches, with horizontal and    *)
(* vertical keys held.                                                       *)

TiltSets == {{}, {FORWARD}, {BACK, SPACE}, {RIGHT, SHIFT}, {FORWARD, RIGHT}}

InitTilt ==
    /\ input = InputState_new
    /\ camera \in {Camera_new(Vec3(0, 0, 0), yaw, pitch, 1778) :
                     yaw \in StartYaws, pitch \in StartPitches}
    /\ app = NoApp
    /\ call = NoCall
    /\ pending = None
    /\ steps = 0
    /\ coast = NoCoast
    /\ main = NoMain

Tilt(dt, keys) ==
    /\ steps < MaxTilt
    /\ steps' = steps + 1
    /\ camera' = update_pos(camera, dt, Held(keys))
    /\ call' = Called("update_pos", <<dt, keys>>, None,
                       Integrate(camera, dt, Held(keys)))
    /\ UNCHANGED <<main, app, input, pending, coast>>

NextTilt == \E dt \in PositiveDts, keys \in TiltSets : Tilt(dt, keys)

SpecTilt == InitTilt /\ [][NextTilt]_vars

-----------------------------------------------------------------------------
(* The selection and the instance counters: key events for tab, up and down *)
(* and frames, in any order, up to MaxUi of them.  The session starts after *)
(* App::new, or after the down key has been held until obj1 shows one       *)
(* instance and obj2 none.                                                  *)

UiKeyEvents ==
    {[state |-> "Pressed", virtual_keycode |-> TAB],
     [state |-> "Released", virtual_keycode |-> TAB],
     [state |-> "Pressed", virtual_keycode |-> UP],
     [state |-> "Pressed", virtual_keycode |-> DOWN]}

UiShown == {<<INSTANCED_ROWS * INSTANCED_COLS, INSTANCED_ROWS * INSTANCED_COLS>>,
            <<1, 0>>}

InitUi ==
    /\ input = InputState_new
    /\ camera = App_camera(WindowSize)
    /\ app \in {[App_new(WindowSize, camera) EXCEPT !.shown_instances = sh] :
                  sh \in UiShown}
    /\ call = NoCall
    /\ pending = None
    /\ steps = 0
    /\ coast = NoCoast
    /\ main = NoMain

UiKey(ev) ==
    LET b == App_input(app, input, camera,
                       [type |-> "KeyboardInput", input |-> ev], NoEvent, TRUE)
    IN  /\ steps < MaxUi
        /\ app' = b.app
        /\ input' = b.input_state
        /\ camera' = b.camera
        /\ steps' = steps + 1
        /\ call' = Called("KeyboardInput", <<ev, TRUE>>, None, None)
        /\ UNCHANGED <<main, pending, coast>>

\* a frame; the history keeps the selection the frame began with
UiFrame(dt) ==
    LET b == App_update([app EXCEPT !.delta_time = dt], input, camera)
    IN  /\ steps < MaxUi
        /\ steps' = steps + 1
        /\ app' = b.app
        /\ input' = b.input_state
        /\ camera' = b.camera
        /\ call' = Called("App::update", dt, app.selected_obj, None)
        /\ UNCHANGED <<main, pending, coast>>

NextUi ==
    \/ \E ev \in UiKeyEvents : UiKey(ev)
    \/ \E dt \in DtSet : UiFrame(dt)

SpecUi == InitUi /\ [][NextUi]_vars

-----------------------------------------------------------------------------
(* The event loop: up to MaxMain events of the window, in any order, while  *)
(* control_flow is not Exit; once it is Exit the loop delivers its last     *)
(* event, LoopDestroyed, and ends.  The session starts when the loop is     *)
(* entered, or a second later, when a hundred MainEventsCleared events have *)
(* brought the toggle cooldown down to 0.                                   *)

MainKeyEvents ==
    {EscapePressed,
     [state |-> "Released", virtual_keycode |-> "Escape"],
     [state |-> "Pressed", virtual_keycode |-> SPACE],
     [state |-> "Pressed", virtual_keycode |-> "Q"]}

\* Ok(()) and the four values of wgpu::SurfaceError
RenderResults == {"Ok", "Lost", "OutOfMemory", "Outdated", "Timeout"}

CursorPositions == {<<640000, 180000>>}

InitMain ==
    /\ input = InputState_new
    /\ camera = App_camera(WindowSize)
    /\ app = NoApp
    /\ call = NoCall
    /\ pending = None
    /\ steps = 0
    /\ coast = NoCoast
    /\ main \in {[NoMain EXCEPT !.app.input_state.toggle_cooldown = c] :
                   c \in {SCALE, 0}}

\* the variables after the closure has been called with an event
LoopStep(event) ==
    /\ steps < MaxMain
    /\ main.control_flow # "Exit"
    /\ steps' = steps + 1
    /\ main' = run_app(main, event)
    /\ UNCHANGED <<input, camera, app, pending, coast>>

WindowEvent(event) == [type |-> "WindowEvent", event |-> event]

CloseRequested ==
    /\ LoopStep(WindowEvent([type |-> "CloseRequested"]))
    /\ call' = Called("CloseRequested", None, None, None)

LoopKeyboardInput(ev) ==
    /\ LoopStep(WindowEvent([type |-> "KeyboardInput", input |-> ev]))
    /\ call' = Called("KeyboardInput", ev, None, None)

LoopResized(new_size) ==
    /\ LoopStep(WindowEvent([type |-> "Resized", new_size |-> new_size]))
    /\ call' = Called("Resized", new_size, None, None)

CursorMoved(position) ==
    /\ LoopStep(WindowEvent([type |-> "CursorMoved", position |-> position]))
    /\ call' = Called("CursorMoved", position, None, None)

RedrawRequested(render) ==
    /\ LoopStep([type |-> "RedrawRequested", render |-> render])
    /\ call' = Called("RedrawRequested", render, None, None)

MainEventsCleared ==
    /\ LoopStep([type |-> "MainEventsCleared"])
    /\ call' = Called("MainEventsCleared", None, None, None)

LoopDestroyed ==
    /\ main.control_flow = "Exit"
    /\ call.op # "LoopDestroyed"
    /\ main' = run_app(main, [type |-> "LoopDestroyed"])
    /\ call' = Called("LoopDestroyed", None, None, None)
    /\ UNCHANGED <<input, camera, app, pending, steps, coast>>

NextMain ==
    \/ CloseRequested
    \/ \E ev \in MainKeyEvents : LoopKeyboardInput(ev)
    \/ \E new_size \in NewSizes : LoopResized(new_size)
    \/ \E position \in CursorPositions : CursorMoved(position)
    \/ \E render \in RenderResults : RedrawRequested(render)
    \/ MainEventsCleared
    \/ LoopDestroyed

SpecMain == InitMain /\ [][NextMain]_vars

-----------------------------------------------------------------------------
(* Claims about InputState. *)

Zero2 == <<0, 0>>

\* C1: two calls of get_unhandled_mouse_move in a row, with no other call in
\* between, return (0,0) from the second call, whatever was pending before
\* the first.
C1_SecondConsumeIsZero ==
    [][(call.op = "get_unhandled_mouse_move"
        /\ call'.op = "get_unhandled_mouse_move") => call'.ret = Zero2]_vars

\* a second consume in a row has returned (0,0), after a first one that
\* delivered a nonzero delta
C1_Witness ==
    /\ call.op = "get_unhandled_mouse_move"
    /\ call.ret = Zero2
    /\ call.prev = <<"get_unhandled_mouse_move", <<45000, 0>> >>

\* C2: update_mouse overwrites the pending delta, so a consume returns the
\* delta recorded last since the previous consume, or (0,0) when none was
\* recorded since then; hence no recorded delta is delivered twice.
C2_ConsumeReturnsLastRecorded ==
    [][call'.op = "get_unhandled_mouse_move" =>
          call'.ret = (IF pending = None THEN Zero2 ELSE pending)]_vars

\* a consume has returned the delta of the update_mouse call before it
C2_Witness ==
    /\ call.op = "get_unhandled_mouse_move"
    /\ call.ret = <<-15000, 45000>>
    /\ call.prev[1] = "update_mouse"
    /\ input.unhandled_mouse_move = Zero2

\* the flag update_keyboard is to set for a key, None for an ignored key
FlagOf(key) ==
    CASE key = "Space" -> "space_pressed"
      [] key = "LShift" -> "shift_pressed"
      [] key = "W" -> "forward_pressed"
      [] key = "S" -> "backward_pressed"
      [] key = "A" -> "left_pressed"
      [] key = "D" -> "right_pressed"
      [] key = "Tab" -> "tab_pressed"
      [] key = "Up" -> "up_pressed"
      [] key = "Down" -> "down_pressed"
      [] key = "LControl" -> "ctrl_pressed"
      [] OTHER -> None

\* C3: update_keyboard with a recognized key sets that key's flag (true on
\* Pressed, false on Released) and leaves all other flags and the pending
\* mouse delta alone; with an unrecognized key or no key code it changes
\* nothing.
C3_KeySetsOnlyItsFlag ==
    [][call'.op = "update_keyboard" =>
          LET ev   == call'.arg
              flag == FlagOf(ev.virtual_keycode)
          IN  /\ flag # None => input'[flag] = (ev.state = "Pressed")
              /\ \A f \in DOMAIN input : f # flag => input'[f] = input[f]]_vars

\* a recognized key has just been released while another key and a mouse
\* delta were pending
C3_Witness ==
    /\ call.op = "update_keyboard"
    /\ call.arg = [state |-> "Released", virtual_keycode |-> "S"]
    /\ ~input.backward_pressed
    /\ input.forward_pressed
    /\ input.unhandled_mouse_move # Zero2

-----------------------------------------------------------------------------
(* Claims about Camera::update_look. *)

\* C4: after every update_look call the yaw satisfies 0 <= yaw < 360.
C4_YawHalfOpen ==
    call.op = "update_look" => (0 <= camera.yaw /\ camera.yaw < 360000)

\* C5: after every update_look call the pitch satisfies
\* -89.99 <= pitch <= 89.99.
C5_PitchClamped ==
    call.op = "update_look" =>
        (-89990 <= camera.pitch /\ camera.pitch <= 89990)

\* an update_look has clamped the pitch at the lower limit
C5_Witness ==
    /\ call.op = "update_look"
    /\ call.pre.pitch > -89990
    /\ call.pre.pitch - Mul(Mul(SENS, call.arg[1][2]), call.arg[2]) < -89990
    /\ camera.pitch = -89990

-----------------------------------------------------------------------------
(* Claims about Camera::update_pos. *)

Axes == {"x", "y", "z"}

\* the frame time of the last update_pos call
CallDt == call.arg[1]

\* C6: after every update_pos call each position component lies within
\* [MIN_POS, MAX_POS], and a component the bound checks moved has had its
\* velocity component negated.
C6_WithinBoundsAndBounced ==
    call.op = "update_pos" =>
        \A a \in Axes :
            /\ MIN_POS[a] <= camera.loc[a]
            /\ camera.loc[a] <= MAX_POS[a]
            /\ camera.loc[a] # call.mid.loc[a] =>
                   camera.vel[a] = -call.mid.vel[a]

\* an update_pos has clamped x at the upper bound while moving, and y at the
\* lower bound
C6_Witness ==
    /\ call.op = "update_pos"
    /\ call.mid.loc.x > MAX_POS.x
    /\ call.mid.vel.x > 0
    /\ camera.loc.x = MAX_POS.x
    /\ camera.vel.x < 0
    /\ call.mid.loc.z < MIN_POS.z \/ call.mid.loc.y < MIN_POS.y

\* C7 as stated: from loc.x = MAX_POS.x with vel.x > 0, one update_pos step
\* leaves loc.x = MAX_POS.x and vel.x negated, with the magnitude it had
\* before the step.
C7_AsStated ==
    (call.op = "update_pos" /\ call.pre.loc.x = MAX_POS.x
     /\ call.pre.vel.x > 0) =>
        (camera.loc.x = MAX_POS.x /\ camera.vel.x = -call.pre.vel.x)

\* C7, amended: from loc.x = MAX_POS.x with vel.x > 0, an update_pos step that
\* carries loc.x above MAX_POS.x leaves loc.x = MAX_POS.x and vel.x equal to
\* the negation of the (positive) velocity update_vel produced in that step;
\* a step whose integrated loc.x stays within [MIN_POS.x, MAX_POS.x] leaves
\* loc.x and vel.x as integrated.
C7_BounceAtMaxX ==
    (call.op = "update_pos" /\ call.pre.loc.x = MAX_POS.x
     /\ call.pre.vel.x > 0) =>
        /\ call.mid.loc.x > MAX_POS.x =>
               /\ camera.loc.x = MAX_POS.x
               /\ call.mid.vel.x > 0
               /\ camera.vel.x = -call.mid.vel.x
        /\ (MIN_POS.x <= call.mid.loc.x /\ call.mid.loc.x <= MAX_POS.x) =>
               /\ camera.loc.x = call.mid.loc.x
               /\ camera.vel.x = call.mid.vel.x

\* an update_pos started on the upper x bound with positive x velocity, the
\* frame's acceleration changed that velocity, and the bound check negated it
C7_Witness ==
    /\ call.op = "update_pos"
    /\ call.pre.loc.x = MAX_POS.x
    /\ call.pre.vel.x > 0
    /\ call.mid.loc.x > MAX_POS.x
    /\ call.mid.vel.x # call.pre.vel.x
    /\ camera.loc.x = MAX_POS.x
    /\ camera.vel.x = -call.mid.vel.x

-----------------------------------------------------------------------------
(* Claims about Camera::update_vel.  call.pre.vel is the velocity before   *)
(* the update_pos call and call.mid.vel the velocity update_vel left: the  *)
(* steps between update_vel and the bound checks do not write vel.         *)

Sign(a) == IF a > 0 THEN 1 ELSE IF a < 0 THEN -1 ELSE 0

\* the component of the horizontal velocity of v along the unit vector dir,
\* exactly, in millionths
Along(dir, v) == dir[1] * v.x + dir[2] * v.z

\* a nonzero velocity component c0 has become c1: smaller in magnitude and
\* not of the opposite sign
Decayed(c0, c1) ==
    c0 # 0 => (Abs(c1) < Abs(c0) /\ Sign(c1) \in {0, Sign(c0)})

\* C8: in an update_vel step with dt > 0, on each axis (camera-horizontal
\* forward, camera-horizontal right, vertical) that has zero acceleration and
\* nonzero velocity, the velocity along the axis shrinks in magnitude and
\* does not change sign.
C8_IdleAxisDecays ==
    (call.op = "update_pos" /\ CallDt > 0) =>
        LET forward == HorizontalForward(call.pre)
            right   == HorizontalRight(call.pre)
        IN  /\ call.mid.acc.x = 0 =>
                   Decayed(Along(forward, call.pre.vel),
                           Along(forward, call.mid.vel))
            /\ call.mid.acc.z = 0 =>
                   Decayed(Along(right, call.pre.vel),
                           Along(right, call.mid.vel))
            /\ call.mid.acc.y = 0 =>
                   Decayed(call.pre.vel.y, call.mid.vel.y)

\* C9: in an update_vel step with dt > 0, no horizontal acceleration and a
\* nonzero horizontal velocity (a zero x or z component included), the
\* magnitude of the horizontal velocity shrinks by dt * DEACCELERATION, or to
\* zero if that would overshoot, and its direction is kept.  Magnitudes are
\* compared up to the rounding of the arithmetic.
C9_HorizontalDecay ==
    (/\ call.op = "update_pos" /\ CallDt > 0
     /\ call.mid.acc.x = 0 /\ call.mid.acc.z = 0
     /\ <<call.pre.vel.x, call.pre.vel.z>> # <<0, 0>>) =>
        LET v0   == <<call.pre.vel.x, call.pre.vel.z>>
            v1   == <<call.mid.vel.x, call.mid.vel.z>>
            m0   == Magnitude2(v0)
            want == Max(m0 - Mul(CallDt, 5000), 0)
            tol  == 2 + m0 \div 500
        IN  /\ Abs(Magnitude2(v1) - want) <= tol
            /\ Sign(v1[1]) \in {0, Sign(v0[1])}
            /\ Sign(v1[2]) \in {0, Sign(v0[2])}
            /\ Abs(v0[1] * v1[2] - v0[2] * v1[1]) <= tol * m0

\* vel.y moved toward zero by amp, stopping at zero
TowardZero(vy, amp) ==
    IF vy > amp THEN vy - amp ELSE IF vy < -amp THEN vy + amp ELSE 0

\* every update_vel step without vertical input moves vel.y toward zero by
\* dt * DEACCELERATION without overshooting, whatever the horizontal keys
\* and the horizontal velocity are
VerticalStep ==
    (call.op = "update_pos" /\ call.mid.acc.y = 0) =>
        call.mid.vel.y = TowardZero(call.pre.vel.y, Mul(CallDt, 5000))

\* with no vertical input and a constant dt > 0, the magnitude of vel.y
\* after n frames is the starting magnitude less n * dt * DEACCELERATION, and
\* exactly 0 from the frame on where that is no longer positive: vel.y reaches
\* 0 after finitely many frames and stays there
VerticalReachesZero ==
    coast.frames > 0 =>
        /\ Abs(camera.vel.y) =
               Max(Abs(coast.vy0) - coast.frames * Mul(coast.dt, 5000), 0)
        /\ coast.frames = CoastFrames => camera.vel.y = 0

\* C10: whenever no vertical input is held, each update_vel step moves vel.y
\* toward zero by dt * DEACCELERATION without overshooting, independently of
\* the horizontal keys and velocity; with constant dt > 0 and no vertical
\* input vel.y reaches exactly 0 after finitely many steps and stays there.
C10_VerticalDecay == VerticalStep /\ VerticalReachesZero

\* coasting has brought a nonzero vel.y to exactly zero, a further frame
\* has left it there, and the camera still moves horizontally
C10_Witness ==
    /\ call.op = "update_pos"
    /\ coast.frames > 2
    /\ coast.vy0 # 0
    /\ Abs(coast.vy0) <= (coast.frames - 1) * Mul(coast.dt, 5000)
    /\ Abs(coast.vy0) > (coast.frames - 2) * Mul(coast.dt, 5000)
    /\ call.pre.vel.y = 0
    /\ camera.vel.y = 0
    /\ camera.vel.x # 0

-----------------------------------------------------------------------------
(* Claims about the speed, the movement intent and the acceleration. *)

\* the keys held during the last update_pos call
CallKeys == call.arg[2]

MovementKeys == {FORWARD, BACK, LEFT, RIGHT, SPACE, SHIFT}

Min(a, b) == IF a < b THEN a ELSE b

\* C11: the speed lies within [WALK_SPEED, SPRINT_SPEED] after construction
\* and after every update_pos; a step with ctrl and a movement key held
\* raises it by 5 * dt, stopping at SPRINT_SPEED, and any other step lowers
\* it by 5 * dt, stopping at WALK_SPEED, so that it never changes by more
\* than 5 * dt in a step.
C11_SpeedRamps ==
    /\ WALK_SPEED <= camera.speed
    /\ camera.speed <= SPRINT_SPEED
    /\ call.op = "update_pos" =>
           LET d == Mul(CallDt, 5000)
           IN  IF CTRL \in CallKeys /\ CallKeys \cap MovementKeys # {}
               THEN camera.speed = Min(call.pre.speed + d, SPRINT_SPEED)
               ELSE camera.speed = Max(call.pre.speed - d, WALK_SPEED)

\* a sprinting step has stopped the speed at the cap, from a speed already
\* above walking speed
C11_Witness ==
    /\ call.op = "update_pos"
    /\ CallKeys = {FORWARD, CTRL}
    /\ call.pre.speed > WALK_SPEED
    /\ call.pre.speed < SPRINT_SPEED
    /\ call.pre.speed + Mul(CallDt, 5000) > SPRINT_SPEED
    /\ camera.speed = SPRINT_SPEED

\* the unit intent of an axis: +1 with only the positive key held, -1 with
\* only the negative key, 0 with both or neither
Intent(pos, neg) == (IF pos THEN 1 ELSE 0) - (IF neg THEN 1 ELSE 0)

\* C12 as stated: get_movement returns x = forward/backward, z = right/left,
\* y = space/shift, each axis of magnitude 1 (0 with both or neither key),
\* except that ctrl multiplies the x axis only.
C12_AsStated ==
    call.op = "get_movement" =>
        /\ call.ret.y = SCALE * Intent(input.space_pressed, input.shift_pressed)
        /\ call.ret.z = SCALE * Intent(input.right_pressed, input.left_pressed)
        /\ Sign(call.ret.x) =
               Intent(input.forward_pressed, input.backward_pressed)
        /\ ~input.ctrl_pressed => Abs(call.ret.x) \in {0, SCALE}

\* C12, amended: get_movement returns x = forward/backward, z = right/left,
\* y = space/shift, each axis of magnitude 1.5 (0 with both or neither key),
\* except that ctrl multiplies the x axis, and only it, by 2.
C12_Movement ==
    call.op = "get_movement" =>
        /\ call.ret.y = 1500 * Intent(input.space_pressed, input.shift_pressed)
        /\ call.ret.z = 1500 * Intent(input.right_pressed, input.left_pressed)
        /\ call.ret.x =
               (IF input.ctrl_pressed THEN 2 ELSE 1) * 1500
               * Intent(input.forward_pressed, input.backward_pressed)

\* get_movement has been called with forward, right and ctrl held: the x
\* axis is doubled and the z axis is not
C12_Witness ==
    /\ call.op = "get_movement"
    /\ input.forward_pressed /\ input.right_pressed /\ input.ctrl_pressed
    /\ call.ret = [x |-> 3000, y |-> 0, z |-> 1500]

\* C13: update_acc sets the acceleration from the held keys only: each axis
\* gets +(ACCELERATION + DEACCELERATION) for its positive key and the same
\* negated for its negative key, opposing keys cancel to 0, and with ctrl
\* and forward both held the forward-axis acceleration is that value
\* multiplied by a sprint factor greater than 1.
C13_AccFromKeys ==
    call.op = "update_pos" =>
        LET a == ACCELERATION + DEACCELERATION
            x == a * Intent(FORWARD \in CallKeys, BACK \in CallKeys)
        IN  /\ camera.acc.y = a * Intent(SPACE \in CallKeys, SHIFT \in CallKeys)
            /\ camera.acc.z = a * Intent(RIGHT \in CallKeys, LEFT \in CallKeys)
            /\ IF CTRL \in CallKeys /\ FORWARD \in CallKeys
               THEN /\ Sign(camera.acc.x) = Sign(x)
                    /\ x # 0 => Abs(camera.acc.x) > Abs(x)
               ELSE camera.acc.x = x

-----------------------------------------------------------------------------
(* Claims about frames of no duration and about the zero velocity. *)

InRange(self) ==
    /\ \A a \in Axes : MIN_POS[a] <= self.loc[a] /\ self.loc[a] <= MAX_POS[a]
    /\ 0 <= self.yaw /\ self.yaw <= YAW_MAX
    /\ -PITCH_MAX <= self.pitch /\ self.pitch <= PITCH_MAX

\* loc, vel, speed, yaw, pitch and the basis vectors of two cameras agree
SameMotion(c, d) ==
    /\ c.loc = d.loc /\ c.vel = d.vel /\ c.speed = d.speed
    /\ c.yaw = d.yaw /\ c.pitch = d.pitch
    /\ c.forward = d.forward /\ c.right = d.right /\ c.up = d.up

\* C14: an update_pos or an update_look with dt = 0, on a camera whose
\* position, yaw and pitch are in range, leaves loc, vel, speed, yaw, pitch,
\* forward, right and up as they were, whatever keys are held and whatever
\* the mouse delta is.
C14_ZeroDtIsIdentity ==
    /\ (call.op = "update_pos" /\ CallDt = 0 /\ InRange(call.pre)) =>
           SameMotion(camera, call.pre)
    /\ (call.op = "update_look" /\ call.arg[2] = 0 /\ InRange(call.pre)) =>
           SameMotion(camera, call.pre)

\* an update_pos with dt = 0 and the sprint keys held has left a camera
\* alone that was moving, above walking speed, turned and on the upper x
\* bound
C14_Witness ==
    /\ call.op = "update_pos"
    /\ CallDt = 0
    /\ CallKeys = {FORWARD, CTRL}
    /\ call.pre.vel.x # 0
    /\ call.pre.speed > WALK_SPEED
    /\ call.pre.loc.x = MAX_POS.x
    /\ camera.acc.x # 0
    /\ SameMotion(camera, call.pre)

\* C15: when the horizontal velocity is zero where update_vel computes its
\* angle to a basis vector, that is after the acceleration has been added
\* and with exactly one horizontal axis accelerating, the friction nudge is
\* skipped: the horizontal velocity stays zero.
C15_ZeroVelocitySkipsNudge ==
    (/\ call.op = "update_pos"
     /\ (call.mid.acc.x = 0) # (call.mid.acc.z = 0)
     /\ Accelerated([call.pre EXCEPT !.acc = call.mid.acc], CallDt) = Zero2) =>
        (call.mid.vel.x = 0 /\ call.mid.vel.z = 0)

-----------------------------------------------------------------------------
(* Claims about the basis vectors, the aspect ratio and the look update. *)

\* the dot product of two vectors in ten-thousandths
Dot3(a, b) == MulU(a.x, b.x) + MulU(a.y, b.y) + MulU(a.z, b.z)

\* the rounding allowed in a length or a dot product, and in a component of
\* a normalized vector: one part in two thousand
Tolerance == UNIT \div 2000

Near(a, b) == Abs(a - b) <= Tolerance

NearVec(a, b) == Near(a.x, b.x) /\ Near(a.y, b.y) /\ Near(a.z, b.z)

\* C16: after every update_look, forward, right and up have length 1 and
\* are pairwise orthogonal, right is the normalized forward x WORLD_UP and
\* up is the normalized right x forward, all up to rounding.
C16_Orthonormal ==
    call.op = "update_look" =>
        LET f == camera.forward
            r == camera.right
            u == camera.up
        IN  /\ Near(Dot3(f, f), UNIT)
            /\ Near(Dot3(r, r), UNIT)
            /\ Near(Dot3(u, u), UNIT)
            /\ Near(Dot3(f, r), 0)
            /\ Near(Dot3(f, u), 0)
            /\ Near(Dot3(r, u), 0)
            /\ NearVec(r, Normalize(Cross(f, WORLD_UP)))
            /\ NearVec(u, Normalize(Cross(r, f)))

\* an update_look has stopped the pitch at the upper limit, where forward
\* is nearly vertical, with a yaw that is no multiple of 90 degrees
C16_Witness ==
    /\ call.op = "update_look"
    /\ camera.pitch = PITCH_MAX
    /\ call.pre.pitch < PITCH_MAX
    /\ camera.yaw % 90000 # 0
    /\ camera.forward.y > 9990
    /\ camera.right.x # 0 /\ camera.right.z # 0

\* C17: set_aspect changes the aspect ratio and nothing else of the camera,
\* so that the view part of the view-projection (eye, center, up) is the
\* same before and after; build_view_proj leaves the camera as it is and
\* returns the matrix of the camera's position, basis and aspect.
C17_AspectOnly ==
    [][/\ call'.op = "set_aspect" =>
            /\ camera' = [camera EXCEPT !.aspect = call'.arg]
            /\ build_view_proj(camera').eye = build_view_proj(camera).eye
            /\ build_view_proj(camera').center = build_view_proj(camera).center
            /\ build_view_proj(camera').up = build_view_proj(camera).up
       /\ call'.op = "build_view_proj" =>
            /\ camera' = camera
            /\ call'.ret.eye = camera.loc
            /\ call'.ret.up = camera.up
            /\ call'.ret.aspect = camera.aspect]_vars

\* a view-projection has been built right after a resize to a new aspect,
\* on a camera that had been turned
C17_Witness ==
    /\ call.op = "build_view_proj"
    /\ call.prev[1] = "set_aspect"
    /\ camera.aspect = 1333
    /\ call.ret.aspect = 1333
    /\ camera.pitch # 0
    /\ call.ret.up = camera.up
    /\ camera.speed = WALK_SPEED

\* the yaw update_look stores for a yaw of y after the mouse delta is added
Wrapped(y) == IF y > YAW_MAX THEN 0 ELSE IF y < 0 THEN YAW_MAX ELSE y

\* the pitch update_look stores for a pitch of p after the delta is added
Clamped(p) == Max(Min(p, PITCH_MAX), -PITCH_MAX)

\* C20: update_look adds SENS * dx * dt to the yaw and SENS * (-dy) * dt to
\* the pitch before it wraps the yaw and clamps the pitch: the new yaw
\* depends on dx and not on dy, the new pitch on dy and not on dx, a
\* positive dy never raises the pitch and a negative dy never lowers it, and
\* loc, vel, acc, speed and aspect are left alone.
C20_LookDelta ==
    call.op = "update_look" =>
        LET dx == call.arg[1][1]
            dy == call.arg[1][2]
            dt == call.arg[2]
        IN  /\ camera.yaw = Wrapped(call.pre.yaw + Mul(Mul(SENS, dx), dt))
            /\ camera.pitch = Clamped(call.pre.pitch - Mul(Mul(SENS, dy), dt))
            /\ dy > 0 => camera.pitch <= call.pre.pitch
            /\ dy < 0 => camera.pitch >= call.pre.pitch
            /\ camera.loc = call.pre.loc /\ camera.vel = call.pre.vel
            /\ camera.acc = call.pre.acc /\ camera.speed = call.pre.speed
            /\ camera.aspect = call.pre.aspect

\* an update_look with a mouse move to the left and downwards has lowered
\* both the yaw and the pitch, neither reaching its limit
C20_Witness ==
    /\ call.op = "update_look"
    /\ call.arg = << <<-15000, 45000>>, 100>>
    /\ camera.yaw = call.pre.yaw - 30000
    /\ camera.pitch = call.pre.pitch - 90000
    /\ camera.pitch > -PITCH_MAX

-----------------------------------------------------------------------------
(* Claims about the application's frame and its resize. *)

\* C18: App::update consumes the pending mouse delta once, leaving none
\* pending, then runs update_pos with the frame's dt and the InputState,
\* then update_look with the consumed delta and the same dt, and then
\* uploads the view-projection of the camera these two calls left.
C18_FrameOrder ==
    [][call'.op = "App::update" =>
          LET dt    == app'.delta_time
              delta == input.unhandled_mouse_move
          IN  /\ dt = call'.arg
              /\ call'.ret = delta
              /\ input' = [input EXCEPT !.unhandled_mouse_move = Zero2]
              /\ call'.mid = update_pos(camera, dt, input')
              /\ camera' = update_look(call'.mid, delta, dt)
              /\ app'.camera_uniform = build_view_proj(camera')]_vars

\* a frame with forward held has consumed a mouse delta, moved and turned
\* the camera, and uploaded the matrix of the moved and turned camera
C18_Witness ==
    /\ call.op = "App::update"
    /\ call.arg > 0
    /\ call.ret = <<15000, -45000>>
    /\ input.forward_pressed
    /\ input.unhandled_mouse_move = Zero2
    /\ call.mid.loc # call.pre.loc
    /\ call.mid.yaw = call.pre.yaw
    /\ camera.yaw # call.pre.yaw
    /\ camera.loc = call.mid.loc
    /\ app.camera_uniform.eye = camera.loc
    /\ app.camera_uniform.up = camera.up

\* C19: a resize to a size with positive width and height has set the
\* camera's aspect to width / height when the event handler returns, the
\* camera's aspect is at all times that of the stored size, and the
\* view-projection a frame uploads has that aspect.
C19_ResizeSetsAspect ==
    /\ (/\ call.op \in {"Resized", "ScaleFactorChanged"}
        /\ call.arg[1] > 0 /\ call.arg[2] > 0) =>
           (app.size = call.arg /\ camera.aspect = AspectOf(call.arg))
    /\ camera.aspect = AspectOf(app.size)
    /\ call.op = "App::update" =>
           app.camera_uniform.aspect = AspectOf(app.size)

\* the frame after a resize to 800 x 600 has uploaded a matrix of aspect
\* 4 : 3, the window having started at 16 : 9
C19_Witness ==
    /\ call.op = "App::update"
    /\ call.prev[1] = "Resized"
    /\ app.size = <<800, 600>>
    /\ call.pre.aspect = 1333
    /\ app.camera_uniform.aspect = 1333

-----------------------------------------------------------------------------
(* Claims about the yaw across the 0/360 boundary. *)

\* C21: update_look wraps the yaw modulo 360: when yaw + SENS * dx * dt
\* leaves [0, 360), the yaw stored is the value in [0, 360) congruent to it
\* modulo 360, so that turning past 360 by e degrees gives the yaw e.
C21_YawWrapsModulo360 ==
    call.op = "update_look" =>
        LET y == call.pre.yaw + Mul(Mul(SENS, call.arg[1][1]), call.arg[2])
        IN  (y < 0 \/ y >= YAW_MAX) => camera.yaw = y % YAW_MAX

-----------------------------------------------------------------------------
(* Claims about a run with forward held, from rest at the origin with yaw   *)
(* and pitch 0.                                                             *)

\* speed * acceleration * dt * dt * n (n + 1) / 2 with dt = 1 / 60, speed 5
\* and acceleration 10: the x position after n frames, in thousandths
ClosedForm(n) == RoundDiv(5 * 10 * ((n * (n + 1)) \div 2) * SCALE, 60 * 60)

\* C22: holding only forward from rest at the origin with yaw 0 and pitch 0,
\* at 60 frames a second, every update_pos leaves the speed at walking
\* speed, vel.x at 10 times the time elapsed, and adds speed * vel.x * dt to
\* loc.x; after n frames loc.x is the sum 5 * 10 * dt * dt * n (n + 1) / 2
\* up to one thousandth of rounding per frame, and after 60 frames it is
\* 25.42 up to 0.06.
C22_ForwardRun ==
    (call.op = "update_pos" /\ CallKeys = {FORWARD}) =>
        /\ camera.speed = WALK_SPEED
        /\ camera.vel.x = Mul(ACCELERATION + DEACCELERATION, Elapsed(steps))
        /\ camera.loc.x =
               call.pre.loc.x + Mul(Mul(camera.speed, camera.vel.x), CallDt)
        /\ Abs(camera.loc.x - ClosedForm(steps)) <= steps
        /\ steps = 60 => Abs(camera.loc.x - 25417) <= 60

\* the sixtieth frame of a run with forward held has ended, one second
\* after the start
C22_Witness ==
    /\ call.op = "update_pos"
    /\ CallKeys = {FORWARD}
    /\ steps = 60
    /\ Elapsed(steps) = SCALE
    /\ camera.vel.x = 10000
    /\ camera.loc.x > 25000 /\ camera.loc.x < 26000

\* C25: with yaw 0, pitch 0 and no velocity at the start, holding only
\* forward over any number of update_pos steps with dt > 0 gives purely
\* forward motion: vel.z and loc.z are exactly 0 after every step.
C25_NoSidewaysDrift ==
    (call.op = "update_pos" /\ CallKeys = {FORWARD} /\ CallDt > 0) =>
        (camera.vel.z = 0 /\ camera.loc.z = 0)

-----------------------------------------------------------------------------
(* Claims about the vertical axis and about the basis vectors. *)

\* Vector3::new(v.x, 0.0, v.z).normalize() for a stored basis vector v, as
\* <<x, z>> in thousandths
Horizontal(v) ==
    LET h == Normalize(Vec3(v.x, 0, v.z))
    IN  <<RoundDiv(h.x, 10), RoundDiv(h.z, 10)>>

\* C23: in update_vel the new vel.y is a function of acc.y, the old vel.y
\* and dt alone, whatever the yaw, the pitch, the horizontal keys and the
\* horizontal velocity are: vel.y + acc.y * dt with vertical input, and
\* vel.y moved toward zero by dt * DEACCELERATION without it.  The
\* horizontal keys change vel.x and vel.z only, along the horizontal
\* (y = 0, renormalized) projections of forward and right: with both
\* horizontal axes accelerating, where no friction applies, vel.x and vel.z
\* grow by acc.x * forward * dt + acc.z * right * dt, up to rounding.
C23_VerticalIndependent ==
    call.op = "update_pos" =>
        LET a   == ACCELERATION + DEACCELERATION
            ay  == a * Intent(SPACE \in CallKeys, SHIFT \in CallKeys)
            ax  == a * Intent(FORWARD \in CallKeys, BACK \in CallKeys)
            az  == a * Intent(RIGHT \in CallKeys, LEFT \in CallKeys)
            hf  == Horizontal(call.pre.forward)
            hr  == Horizontal(call.pre.right)
            tol == 2 + RoundDiv(Mul(2 * a, CallDt), 500)
        IN  /\ call.mid.vel.y =
                   IF ay = 0
                   THEN TowardZero(call.pre.vel.y, Mul(CallDt, DEACCELERATION))
                   ELSE call.pre.vel.y + Mul(ay, CallDt)
            /\ (ax # 0 /\ az # 0) =>
                   /\ Abs(call.mid.vel.x
                          - (call.pre.vel.x + Mul(Mul(ax, hf[1]), CallDt)
                                            + Mul(Mul(az, hr[1]), CallDt))) <= tol
                   /\ Abs(call.mid.vel.z
                          - (call.pre.vel.z + Mul(Mul(ax, hf[2]), CallDt)
                                            + Mul(Mul(az, hr[2]), CallDt))) <= tol

\* a camera looking up steeply and climbing has been accelerated forward
\* and to the right: its climb has slowed by the friction alone
C23_Witness ==
    /\ call.op = "update_pos"
    /\ CallKeys = {FORWARD, RIGHT}
    /\ call.pre.pitch = 60000
    /\ call.pre.yaw = 180000
    /\ call.pre.vel.y > 0
    /\ call.mid.vel.y = call.pre.vel.y - Mul(CallDt, DEACCELERATION)
    /\ call.mid.vel.x # call.pre.vel.x
    /\ call.mid.vel.z # call.pre.vel.z

\* yaw, pitch and the basis vectors of two cameras agree
SameLook(c, d) ==
    /\ c.yaw = d.yaw /\ c.pitch = d.pitch
    /\ c.forward = d.forward /\ c.right = d.right /\ c.up = d.up

\* C24: after Camera::new and after any sequence of frames (update_pos and
\* update_look) and resizes (set_aspect), forward, right and up are the
\* vectors calc_vecs derives from the current yaw and pitch; update_pos and
\* set_aspect change none of yaw, pitch, forward, right and up.
C24_BasisNeverStale ==
    /\ camera.forward = calc_vecs(camera).forward
    /\ camera.right = calc_vecs(camera).right
    /\ camera.up = calc_vecs(camera).up
    /\ call.op = "App::update" => SameLook(call.mid, call.pre)
    /\ call.op \in {"Resized", "ScaleFactorChanged"} =>
           SameLook(camera, call.pre)

\* a camera a frame has turned and moved has been given a new aspect by a
\* resize: its basis is that of the turned yaw and pitch
C24_Witness ==
    /\ call.op = "Resized"
    /\ call.prev[1] = "App::update"
    /\ camera.aspect = 1333
    /\ camera.pitch # 0
    /\ camera.yaw # 45000
    /\ camera.forward # App_camera(WindowSize).forward
    /\ camera.forward = calc_vecs(camera).forward

-----------------------------------------------------------------------------
(* Claims about the application's events. *)

ResizeEvents == {"Resized", "ScaleFactorChanged"}

\* C26: a keyboard or a mouse-motion event that arrives while the window is
\* not focused leaves every flag of the InputState and the pending mouse
\* delta as they were; with the window focused the key's flag is written
\* and the delta is stored; a Resized or a ScaleFactorChanged event to a
\* size with positive sides is applied whether the window is focused or not.
C26_FocusGatesInput ==
    [][/\ (call'.op \in {"KeyboardInput", "MouseMotion"} /\ ~call'.arg[2]) =>
              input' = input
       /\ (call'.op = "KeyboardInput" /\ call'.arg[2]) =>
              input' = update_keyboard(input, call'.arg[1])
       /\ (call'.op = "MouseMotion" /\ call'.arg[2]) =>
              input' = [input EXCEPT !.unhandled_mouse_move = call'.arg[1]]
       /\ (call'.op \in ResizeEvents /\ call'.arg[1] > 0 /\ call'.arg[2] > 0) =>
              (app'.size = call'.arg /\ app'.config = call'.arg)]_vars

\* a key press has arrived without focus and left its flag unset, after a
\* resize without focus that was applied
C26_Witness ==
    /\ call.op = "KeyboardInput"
    /\ call.arg = <<[state |-> "Pressed", virtual_keycode |-> FORWARD], FALSE>>
    /\ ~input.forward_pressed
    /\ call.prev = <<"ScaleFactorChanged", FALSE>>
    /\ app.size = <<800, 600>>

\* C27: a resize to a size whose width or height is 0 is ignored: the size,
\* the width and height of the surface configuration, the depth texture and
\* the camera's aspect keep their values; the stored size never has a zero
\* side, so that the aspect is never computed from a zero height.
C27_ZeroSizeIgnored ==
    [][/\ (call'.op \in ResizeEvents
           /\ (call'.arg[1] = 0 \/ call'.arg[2] = 0)) =>
              /\ app'.size = app.size
              /\ app'.config = app.config
              /\ app'.depth_texture = app.depth_texture
              /\ camera' = camera
       /\ app'.size[1] > 0 /\ app'.size[2] > 0
       /\ app'.depth_texture = app'.size
       /\ camera'.aspect = AspectOf(app'.size)]_vars

\* a resize to a height of 0 has been ignored after a resize to 800 x 600
\* that was applied
C27_Witness ==
    /\ call.op = "Resized"
    /\ call.arg = <<800, 0>>
    /\ call.prev[1] = "Resized"
    /\ app.size = <<800, 600>>
    /\ app.config = <<800, 600>>
    /\ app.depth_texture = <<800, 600>>
    /\ camera.aspect = 1333

-----------------------------------------------------------------------------
(* Claims about the selection and the instance counters. *)

\* C28: selected_obj is always 0 or 1.  A frame toggles it if and only if
\* tab is held and the toggle cooldown is <= 0 when the frame begins; the
\* toggle sets the cooldown to 1.0, and every frame lowers the cooldown by
\* 5 * delta_time; so the frame right after a toggling frame that lasted
\* less than 0.2 s, which leaves the cooldown above 0, does not toggle.
C28_ToggleCooldown ==
    [][/\ app'.selected_obj \in {0, 1}
       /\ call'.op = "App::update" =>
              LET toggle == input.tab_pressed /\ app.cooldowns[1] <= 0
              IN  /\ (app'.selected_obj # app.selected_obj) <=> toggle
                  /\ app'.cooldowns[1] =
                         (IF toggle THEN SCALE ELSE app.cooldowns[1])
                         - Mul(call'.arg, 5000)
       /\ call'.op # "App::update" =>
              (app'.selected_obj = app.selected_obj
               /\ app'.cooldowns = app.cooldowns)
       /\ (/\ call.op = "App::update" /\ call'.op = "App::update"
           /\ call.ret # app.selected_obj
           /\ Mul(call.arg, 5000) < SCALE) =>
              app'.selected_obj = app.selected_obj]_vars

\* with tab held throughout, a frame has toggled the selection back once
\* the cooldown of the first toggle had run out: the frame before it began
\* with the cooldown above 0 and did not toggle
C28_Witness ==
    /\ call.op = "App::update"
    /\ call.prev = <<"App::update", 0>>
    /\ call.ret = 0
    /\ input.tab_pressed
    /\ app.selected_obj = 1
    /\ app.cooldowns[1] = SCALE - Mul(call.arg, 5000)
    /\ steps = 4

\* C29: for both objects 0 <= shown_instances <= num_instances at all
\* times; a frame changes the shown_instances of no object but the selected
\* one (the selection being the one after the frame's own toggle), and that
\* by at most 1; no other operation changes them.
C29_ShownInstances ==
    [][/\ \A i \in {1, 2} :
              /\ 0 <= app'.shown_instances[i]
              /\ app'.shown_instances[i] <= app'.num_instances[i]
              /\ Abs(app'.shown_instances[i] - app.shown_instances[i]) <= 1
              /\ i # app'.selected_obj + 1 =>
                     app'.shown_instances[i] = app.shown_instances[i]
       /\ call'.op # "App::update" =>
              app'.shown_instances = app.shown_instances
       /\ app'.num_instances = app.num_instances]_vars

\* with tab and down held, a frame has toggled the selection from obj2,
\* which shows no instance, to obj1 and taken the last instance of obj1
C29_Witness ==
    /\ call.op = "App::update"
    /\ input.down_pressed /\ input.tab_pressed
    /\ app.selected_obj = 0
    /\ app.shown_instances = <<0, 0>>
    /\ call.ret = 1

-----------------------------------------------------------------------------
(* Claims about the event loop of main.rs. *)

\* C30: a render failure is handled by its kind: SurfaceError::Lost
\* configures the surface again at the current size and leaves control_flow
\* as it is, SurfaceError::OutOfMemory sets control_flow to Exit and does
\* nothing else, any other error is printed and nothing else changes, and a
\* successful render changes nothing; CloseRequested and a press of Escape
\* set control_flow to Exit and are not handed to app.input; control_flow is
\* Poll or Exit at all times.
C30_RenderFailureByKind ==
    [][/\ main'.control_flow \in {"Poll", "Exit"}
       /\ call'.op = "RedrawRequested" =>
              CASE call'.arg = "Ok" -> main' = main
                [] call'.arg = "Lost" ->
                       main' = [main EXCEPT !.app.surface =
                                   [config |-> main.app.size,
                                    configures |-> @.configures + 1]]
                [] call'.arg = "OutOfMemory" ->
                       main' = [main EXCEPT !.control_flow = "Exit"]
                [] OTHER ->
                       main' = [main EXCEPT !.stderr = Append(@, call'.arg)]
       /\ (\/ call'.op = "CloseRequested"
           \/ (call'.op = "KeyboardInput" /\ call'.arg = EscapePressed)) =>
              main' = [main EXCEPT !.control_flow = "Exit"]]_vars

\* the surface was lost after a resize to 800 x 600: it has been configured
\* a third time, at that size, and the loop goes on
C30_Witness ==
    /\ call.op = "RedrawRequested"
    /\ call.arg = "Lost"
    /\ call.prev[1] = "Resized"
    /\ main.app.size = <<800, 600>>
    /\ main.app.surface = [config |-> <<800, 600>>, configures |-> 3]
    /\ main.control_flow = "Poll"
    /\ main.stderr = <<>>

=============================================================================
